---------------------------- MODULE Spec2Model ----------------------------
(***************************************************************************)
(* Model of the NNAPI HAL validation core (nn/common/ValidateHal.cpp).     *)
(*                                                                         *)
(* The validators are pure functions of their arguments, so each one is an *)
(* operator and each specification draws the arguments in its initial      *)
(* state and applies the validator in one step.  validateOperations is     *)
(* additionally modelled loop iteration by loop iteration.                 *)
(*                                                                         *)
(* Conventions                                                             *)
(*   - a uint32_t is a pair of 16-bit limbs [hi, lo]; a size_t / uint64_t  *)
(*     is [top, hi, lo] where top holds the bits from 2^32 upwards.  A     *)
(*     build whose size_t has 32 bits always has top = 0.                  *)
(*   - a float is one of "-1.0", "0.0", "1.0", "NaN"; the comparisons are  *)
(*     the IEEE ones (every ordered comparison with NaN is false).         *)
(*   - HalVersion V1_0 .. V1_3 is 0 .. 3.                                  *)
(*   - C++ containers are 0-based, sequences here are 1-based: At(s, i)    *)
(*     is s[i] of the source.                                              *)
(***************************************************************************)
EXTENDS Integers, Sequences, FiniteSets, TLC

VARIABLES
    pc,          \* "call" before the call; afterwards the name of the function that returned
    ret,         \* value returned by the call (meaningful once pc # "call")
    sizeTBits,   \* width of size_t in the build: 32 or 64
    hal,         \* HalVersion of the model, operands or request under validation
    pools,       \* the memory pools handed to MemoryAccessVerifier
    location,    \* the DataLocation handed to MemoryAccessVerifier::validate
    operands,    \* the operand table under validation
    operations,  \* validateOperations: the operations scanned so far
    written,     \* validateOperations: std::vector<bool> writtenTo
    oobRead,     \* validateOperations: an element past the end of a vector was accessed
    ioIndexes,   \* validateModelInputOutputs: the index list
    ioLifetime,  \* validateModelInputOutputs: the lifetime expected
    model,       \* the model handed to validateModel / validateRequest
    req,         \* the request handed to validateRequest
    plan,        \* ExecutionPlan: mState and the fields of its CompoundBody
    controller,  \* ExecutionPlan::Controller: mNextStepIndex
    executor,    \* ExecutionPlan::next: the value last stored in *executor
    trace        \* the calls made on the plan so far, in order

vars == <<pc, ret, sizeTBits, hal, pools, location, operands, operations, written, oobRead, ioIndexes, ioLifetime, model, req, plan, controller, executor, trace>>

(***************************************************************************)
(* Bounds of the model.                                                    *)
(***************************************************************************)
MaxPools == 2

MaxOperands == 2

MaxOperations == 2

MaxOutputs == 2

MaxIndexes == 2

MaxRank == 2

MaxDim == 2

MaxReferenced == 2

MaxRefs == 2
\* Largest number of steps of a compound plan.
MaxSteps == 3
\* Largest number of recordTemporaryDef calls on one plan.
MaxDefs == 3

(***************************************************************************)
(* Generic helpers.                                                        *)
(***************************************************************************)
At(s, i) == s[i + 1]

SeqsUpTo(S, n) == UNION {[1..k -> S] : k \in 0..n}

Range(s) == {s[k] : k \in 1..Len(s)}

(***************************************************************************)
(* Fixed-width unsigned arithmetic.                                        *)
(***************************************************************************)
U32(hi, lo) == [hi |-> hi, lo |-> lo]

U32Of(n) == U32(0, n)

U32Max == U32(65535, 65535)

Wide(top, hi, lo) == [top |-> top, hi |-> hi, lo |-> lo]

WideOf(n) == Wide(0, 0, n)

\* static_cast<size_t>(x) of a uint32_t x: always value preserving.
ToSizeT(x) == Wide(0, x.hi, x.lo)

\* Conversion of a uint64_t to size_t: the bits above the width are dropped.
TruncSizeT(w, bits) == IF bits = 32 THEN Wide(0, w.hi, w.lo) ELSE w

\* a + b, the mathematical sum of a size_t a and a uint32_t b (no wrap).
ExactAdd(a, b) ==
    LET lo == a.lo + b.lo
        hi == a.hi + b.hi + (lo \div 65536)
    IN  Wide(a.top + (hi \div 65536), hi % 65536, lo % 65536)

\* a + b as the build computes it: in size_t, modulo 2^bits.
SizeTAdd(a, b, bits) == TruncSizeT(ExactAdd(a, b), bits)

WideGT(a, b) ==
    \/ a.top > b.top
    \/ a.top = b.top /\ a.hi > b.hi
    \/ a.top = b.top /\ a.hi = b.hi /\ a.lo > b.lo

WideLE(a, b) == ~WideGT(a, b)

\* uint32_t compared with a small container size n.
U32GE(x, n) == x.hi > 0 \/ x.lo >= n

U32IsZero(x) == x.hi = 0 /\ x.lo = 0

(***************************************************************************)
(* Memory pools and DataLocation.                                          *)
(***************************************************************************)
HidlMemory(name, size, handle) ==
    [disc |-> "hidlMemory", name |-> name, size |-> size, handle |-> handle,
     token |-> 0]

TokenPool(token) ==
    [disc |-> "token", name |-> "", size |-> WideOf(0), handle |-> FALSE,
     token |-> token]

DataLocation(poolIndex, offset, length) ==
    [poolIndex |-> poolIndex, offset |-> offset, length |-> length]

ZeroLocation == DataLocation(0, U32Of(0), U32Of(0))

\* MemoryAccessVerifier(pools): mPoolCount and mPoolSizes.  A token pool gets
\* size 0; a hidl_memory's uint64_t size is stored in a size_t.
MemoryAccessVerifier(ps, bits) ==
    [mPoolCount |-> Len(ps),
     mPoolSizes |-> [i \in 1..Len(ps) |->
                        IF ps[i].disc = "hidlMemory"
                        THEN TruncSizeT(ps[i].size, bits)
                        ELSE WideOf(0)]]

\* MemoryAccessVerifier::validate.
validate(verifier, loc, bits) ==
    IF loc.poolIndex >= verifier.mPoolCount
    THEN FALSE
    ELSE LET size == At(verifier.mPoolSizes, loc.poolIndex)
         IN  IF WideGT(SizeTAdd(ToSizeT(loc.offset), loc.length, bits), size)
             THEN FALSE
             ELSE TRUE

(***************************************************************************)
(* Floats.                                                                 *)
(***************************************************************************)
Floats == {"-1.0", "0.0", "1.0", "NaN"}

FloatNE0(f) == f # "0.0"

FloatLT0(f) == f = "-1.0"

FloatLE0(f) == f \in {"-1.0", "0.0"}

FloatGT0(f) == f = "1.0"

(***************************************************************************)
(* Operand types and lifetimes.  "EXTENSION" stands for a type value for   *)
(* which isExtensionOperandType holds, "INVALID" for a value that is       *)
(* neither an enumerator of any version nor an extension type.             *)
(***************************************************************************)
ScalarTypes == {"FLOAT16", "FLOAT32", "INT32", "UINT32", "BOOL", "SUBGRAPH", "OEM"}

TensorTypes ==
    {"TENSOR_FLOAT16", "TENSOR_FLOAT32", "TENSOR_INT32", "TENSOR_QUANT8_ASYMM",
     "TENSOR_QUANT8_ASYMM_SIGNED", "TENSOR_QUANT8_SYMM", "TENSOR_QUANT16_ASYMM",
     "TENSOR_QUANT16_SYMM", "TENSOR_BOOL8", "TENSOR_QUANT8_SYMM_PER_CHANNEL",
     "TENSOR_OEM_BYTE"}

OperandTypes == ScalarTypes \cup TensorTypes \cup {"EXTENSION", "INVALID"}

OperandLifeTimes ==
    {"TEMPORARY_VARIABLE", "SUBGRAPH_INPUT", "SUBGRAPH_OUTPUT", "CONSTANT_COPY",
     "CONSTANT_REFERENCE", "NO_VALUE", "SUBGRAPH"}

isExtensionOperandType(type) == type = "EXTENSION"

NoExtraParams == [disc |-> "none", channelDim |-> 0, scales |-> <<>>]

ExtensionParams == [disc |-> "extension", channelDim |-> 0, scales |-> <<>>]

ChannelQuant(channelDim, scales) ==
    [disc |-> "channelQuant", channelDim |-> channelDim, scales |-> scales]

Operand(type, dimensions, scale, zeroPoint, lifetime, loc, extraParams) ==
    [type |-> type, dimensions |-> dimensions, scale |-> scale,
     zeroPoint |-> zeroPoint, lifetime |-> lifetime, location |-> loc,
     extraParams |-> extraParams]

\* Mutant: the V1_3 switch has no case for the two OEM types.
validOperandType_oemDropped(version, operandType) ==
    IF version < 2
    THEN operandType \in {"FLOAT32", "INT32", "UINT32", "TENSOR_FLOAT32",
                          "TENSOR_INT32", "TENSOR_QUANT8_ASYMM", "OEM",
                          "TENSOR_OEM_BYTE"}
    ELSE IF version = 2
    THEN operandType \in
              {"FLOAT16", "FLOAT32", "INT32", "UINT32", "BOOL", "TENSOR_FLOAT16",
               "TENSOR_FLOAT32", "TENSOR_INT32", "TENSOR_QUANT8_ASYMM",
               "TENSOR_QUANT8_SYMM", "TENSOR_QUANT16_ASYMM", "TENSOR_QUANT16_SYMM",
               "TENSOR_BOOL8", "TENSOR_QUANT8_SYMM_PER_CHANNEL", "OEM",
               "TENSOR_OEM_BYTE", "EXTENSION"}
    ELSE operandType \in
              {"FLOAT16", "FLOAT32", "INT32", "UINT32", "BOOL", "TENSOR_FLOAT16",
               "TENSOR_FLOAT32", "TENSOR_INT32", "TENSOR_QUANT8_ASYMM",
               "TENSOR_QUANT8_SYMM", "TENSOR_QUANT16_ASYMM", "TENSOR_QUANT16_SYMM",
               "TENSOR_BOOL8", "TENSOR_QUANT8_SYMM_PER_CHANNEL",
               "TENSOR_QUANT8_ASYMM_SIGNED", "SUBGRAPH", "EXTENSION"}

\* validOperandType(V1_0::OperandType), (V1_2::OperandType), (V1_3::OperandType).
\* A V1_1 model carries V1_0 operands.
validOperandType(version, operandType) ==
    IF version < 2
    THEN operandType \in {"FLOAT32", "INT32", "UINT32", "TENSOR_FLOAT32",
                          "TENSOR_INT32", "TENSOR_QUANT8_ASYMM", "OEM",
                          "TENSOR_OEM_BYTE"}
    ELSE IF version = 2
    THEN IF operandType \in
              {"FLOAT16", "FLOAT32", "INT32", "UINT32", "BOOL", "TENSOR_FLOAT16",
               "TENSOR_FLOAT32", "TENSOR_INT32", "TENSOR_QUANT8_ASYMM",
               "TENSOR_QUANT8_SYMM", "TENSOR_QUANT16_ASYMM", "TENSOR_QUANT16_SYMM",
               "TENSOR_BOOL8", "TENSOR_QUANT8_SYMM_PER_CHANNEL", "OEM",
               "TENSOR_OEM_BYTE"}
         THEN TRUE
         ELSE isExtensionOperandType(operandType)
    ELSE IF operandType \in
              {"FLOAT16", "FLOAT32", "INT32", "UINT32", "BOOL", "TENSOR_FLOAT16",
               "TENSOR_FLOAT32", "TENSOR_INT32", "TENSOR_QUANT8_ASYMM",
               "TENSOR_QUANT8_SYMM", "TENSOR_QUANT16_ASYMM", "TENSOR_QUANT16_SYMM",
               "TENSOR_BOOL8", "TENSOR_QUANT8_SYMM_PER_CHANNEL",
               "TENSOR_QUANT8_ASYMM_SIGNED", "SUBGRAPH", "OEM", "TENSOR_OEM_BYTE"}
         THEN TRUE
         ELSE isExtensionOperandType(operandType)

\* convertToV1_3(operand): a V1_0 operand has no extraParams and is given
\* none; a V1_2 or V1_3 operand keeps every field.
convertToV1_3(version, operand) ==
    IF version < 2 THEN [operand EXCEPT !.extraParams = NoExtraParams] ELSE operand

\* Mutant: a channel dimension of 0 with no scale is let through.
validateOperandExtraParams_zeroChannel(operand) ==
    IF operand.type = "TENSOR_QUANT8_SYMM_PER_CHANNEL"
    THEN /\ operand.extraParams.disc = "channelQuant"
         /\ operand.extraParams.channelDim < Len(operand.dimensions)
         /\ Len(operand.extraParams.scales) = At(operand.dimensions, operand.extraParams.channelDim)
         /\ \A k \in 1..Len(operand.extraParams.scales) : FloatGT0(operand.extraParams.scales[k])
    ELSE IF isExtensionOperandType(operand.type)
    THEN operand.extraParams.disc \in {"extension", "none"}
    ELSE IF operand.type \in {"FLOAT16", "OEM", "TENSOR_OEM_BYTE"}
    THEN TRUE
    ELSE operand.extraParams.disc = "none"

\* validateOperandExtraParams.
validateOperandExtraParams(operand) ==
    IF operand.type \in
          {"FLOAT32", "INT32", "UINT32", "BOOL", "SUBGRAPH", "TENSOR_FLOAT32",
           "TENSOR_FLOAT16", "TENSOR_INT32", "TENSOR_QUANT8_ASYMM",
           "TENSOR_QUANT8_ASYMM_SIGNED", "TENSOR_QUANT8_SYMM",
           "TENSOR_QUANT16_ASYMM", "TENSOR_QUANT16_SYMM", "TENSOR_BOOL8"}
    THEN operand.extraParams.disc = "none"
    ELSE IF operand.type = "TENSOR_QUANT8_SYMM_PER_CHANNEL"
    THEN IF operand.extraParams.disc # "channelQuant"
         THEN FALSE
         ELSE LET channelQuant == operand.extraParams
                  count == Len(operand.dimensions)
              IN  IF ~(channelQuant.channelDim < count)
                  THEN FALSE
                  ELSE LET expected == At(operand.dimensions, channelQuant.channelDim)
                       IN  IF Len(channelQuant.scales) # expected
                           THEN FALSE
                           ELSE IF expected = 0
                           THEN FALSE
                           ELSE \A i \in 0..(expected - 1) :
                                    FloatGT0(At(channelQuant.scales, i))
    ELSE IF isExtensionOperandType(operand.type)
         THEN operand.extraParams.disc \in {"extension", "none"}
         ELSE TRUE  \* No validation for OEM types.

\* nonExtensionOperandSizeOfData(operand): the size of one element of the type
\* times the number of elements (a scalar has one element).
sizeOfElement(type) ==
    CASE type \in {"FLOAT32", "INT32", "UINT32", "TENSOR_FLOAT32", "TENSOR_INT32"} -> 4
      [] type \in {"FLOAT16", "TENSOR_FLOAT16", "TENSOR_QUANT16_SYMM",
                   "TENSOR_QUANT16_ASYMM"} -> 2
      [] type \in {"BOOL", "TENSOR_BOOL8", "TENSOR_QUANT8_ASYMM",
                   "TENSOR_QUANT8_ASYMM_SIGNED", "TENSOR_QUANT8_SYMM",
                   "TENSOR_QUANT8_SYMM_PER_CHANNEL", "TENSOR_OEM_BYTE"} -> 1
      [] OTHER -> 0

RECURSIVE Product(_)
Product(dims) == IF dims = <<>> THEN 1 ELSE Head(dims) * Product(Tail(dims))

nonExtensionOperandSizeOfData(operand) ==
    U32Of(sizeOfElement(operand.type) * Product(operand.dimensions))

\* Mutant: a tensor of rank 0 is let through whatever allowUnspecifiedRank is.
validateRank_alwaysAllowed(operand, allowUnspecifiedRank) ==
    IF operand.type \in ScalarTypes
    THEN Len(operand.dimensions) = 0
    ELSE IF operand.type \in TensorTypes
    THEN ~( /\ \/ operand.lifetime = "CONSTANT_COPY"
               \/ operand.lifetime = "CONSTANT_REFERENCE"
            /\ Len(operand.dimensions) = 0 )
    ELSE isExtensionOperandType(operand.type)

\* validateOperands, "Validate type and dimensions".
validateRank(operand, allowUnspecifiedRank) ==
    IF operand.type \in ScalarTypes
    THEN Len(operand.dimensions) = 0
    ELSE IF operand.type \in TensorTypes
    THEN ~( /\ \/ ~allowUnspecifiedRank
               \/ operand.lifetime = "CONSTANT_COPY"
               \/ operand.lifetime = "CONSTANT_REFERENCE"
            /\ Len(operand.dimensions) = 0 )
    ELSE isExtensionOperandType(operand.type)

\* validateOperands, "Validate the scale".
validateScale(operand) ==
    IF operand.type \in {"FLOAT16", "FLOAT32", "INT32", "UINT32", "BOOL", "SUBGRAPH",
                         "TENSOR_FLOAT16", "TENSOR_FLOAT32", "TENSOR_BOOL8",
                         "TENSOR_QUANT8_SYMM_PER_CHANNEL"}
    THEN ~FloatNE0(operand.scale)
    ELSE IF operand.type = "TENSOR_INT32"
    THEN ~FloatLT0(operand.scale)
    ELSE IF operand.type \in {"TENSOR_QUANT8_ASYMM", "TENSOR_QUANT8_ASYMM_SIGNED",
                              "TENSOR_QUANT8_SYMM", "TENSOR_QUANT16_ASYMM",
                              "TENSOR_QUANT16_SYMM"}
    THEN ~FloatLE0(operand.scale)
    ELSE ~(isExtensionOperandType(operand.type) /\ FloatNE0(operand.scale))

\* Mutant: the upper bounds of the zeroPoint ranges are excluded.
validateZeroPoint_exclusiveUpper(operand) ==
    IF operand.type \in {"FLOAT16", "FLOAT32", "INT32", "UINT32", "BOOL", "SUBGRAPH",
                         "TENSOR_FLOAT16", "TENSOR_FLOAT32", "TENSOR_INT32",
                         "TENSOR_BOOL8", "TENSOR_QUANT8_SYMM",
                         "TENSOR_QUANT8_SYMM_PER_CHANNEL", "TENSOR_QUANT16_SYMM"}
    THEN ~(operand.zeroPoint # 0)
    ELSE IF operand.type = "TENSOR_QUANT8_ASYMM"
    THEN ~(operand.zeroPoint < 0 \/ operand.zeroPoint >= 255)
    ELSE IF operand.type = "TENSOR_QUANT8_ASYMM_SIGNED"
    THEN ~(operand.zeroPoint < -128 \/ operand.zeroPoint >= 127)
    ELSE IF operand.type = "TENSOR_QUANT16_ASYMM"
    THEN ~(operand.zeroPoint < 0 \/ operand.zeroPoint >= 65535)
    ELSE ~(isExtensionOperandType(operand.type) /\ operand.zeroPoint # 0)

\* validateOperands, "Validate the zeroPoint".
validateZeroPoint(operand) ==
    IF operand.type \in {"FLOAT16", "FLOAT32", "INT32", "UINT32", "BOOL", "SUBGRAPH",
                         "TENSOR_FLOAT16", "TENSOR_FLOAT32", "TENSOR_INT32",
                         "TENSOR_BOOL8", "TENSOR_QUANT8_SYMM",
                         "TENSOR_QUANT8_SYMM_PER_CHANNEL"}
    THEN ~(operand.zeroPoint # 0)
    ELSE IF operand.type = "TENSOR_QUANT8_ASYMM"
    THEN ~(operand.zeroPoint < 0 \/ operand.zeroPoint > 255)
    ELSE IF operand.type = "TENSOR_QUANT8_ASYMM_SIGNED"
    THEN ~(operand.zeroPoint < -128 \/ operand.zeroPoint > 127)
    ELSE IF operand.type = "TENSOR_QUANT16_ASYMM"
    THEN ~(operand.zeroPoint < 0 \/ operand.zeroPoint > 65535)
    ELSE IF operand.type = "TENSOR_QUANT16_SYMM"
    THEN ~(operand.zeroPoint # 0)
    ELSE ~(isExtensionOperandType(operand.type) /\ operand.zeroPoint # 0)

\* Mutant: the subgraph index of a SUBGRAPH operand is not compared with the
\* number of subgraphs.
validateLifetimeLocation_subgraphUnchecked(operand, operandValues, poolVerifier, subgraphs, bits) ==
    LET loc == operand.location
    IN  CASE operand.lifetime = "CONSTANT_COPY" ->
               /\ loc.poolIndex = 0
               /\ ~WideGT(SizeTAdd(ToSizeT(loc.offset), loc.length, bits),
                          operandValues)
          [] operand.lifetime = "CONSTANT_REFERENCE" ->
               validate(poolVerifier, loc, bits)
          [] operand.lifetime \in {"TEMPORARY_VARIABLE", "SUBGRAPH_INPUT",
                                   "SUBGRAPH_OUTPUT", "NO_VALUE"} ->
               ~(loc.poolIndex # 0 \/ ~U32IsZero(loc.offset) \/ ~U32IsZero(loc.length))
          [] operand.lifetime = "SUBGRAPH" ->
               /\ loc.poolIndex = 0
               /\ U32IsZero(loc.length)
          [] OTHER -> FALSE

\* validateOperands, "Validate the lifetime and the location".  operandValues
\* is the size() of the model's byte blob, subgraphs the referenced subgraphs.
validateLifetimeLocation(operand, operandValues, poolVerifier, subgraphs, bits) ==
    LET loc == operand.location
    IN  CASE operand.lifetime = "CONSTANT_COPY" ->
               /\ loc.poolIndex = 0
               /\ ~WideGT(SizeTAdd(ToSizeT(loc.offset), loc.length, bits),
                          operandValues)
          [] operand.lifetime = "CONSTANT_REFERENCE" ->
               validate(poolVerifier, loc, bits)
          [] operand.lifetime \in {"TEMPORARY_VARIABLE", "SUBGRAPH_INPUT",
                                   "SUBGRAPH_OUTPUT", "NO_VALUE"} ->
               ~(loc.poolIndex # 0 \/ ~U32IsZero(loc.offset) \/ ~U32IsZero(loc.length))
          [] operand.lifetime = "SUBGRAPH" ->
               /\ loc.poolIndex = 0
               /\ ~U32GE(loc.offset, Len(subgraphs))
               /\ U32IsZero(loc.length)
          [] OTHER -> FALSE

\* Mutant: the declared length of a constant is not compared.
validateConstantLength_unchecked(operand) == TRUE

\* validateOperands, "For constants, validate that the length is as expected".
validateConstantLength(operand) ==
    IF operand.lifetime \in {"CONSTANT_REFERENCE", "CONSTANT_COPY"}
    THEN IF /\ ~isExtensionOperandType(operand.type)
            /\ operand.type # "OEM"
            /\ operand.type # "TENSOR_OEM_BYTE"
         THEN operand.location.length = nonExtensionOperandSizeOfData(operand)
         ELSE TRUE
    ELSE TRUE

\* Mutant: type and lifetime SUBGRAPH are not compared.
validateSubgraphCoupling_unchecked(operand) == TRUE

\* validateOperands, "Make sure SUBGRAPH operand type and lifetime always go
\* together".
validateSubgraphCoupling(operand) ==
    ~((operand.type = "SUBGRAPH") # (operand.lifetime = "SUBGRAPH"))

\* The body of the loop of validateOperands for one versioned operand.
validateOperand(version, versionedOperand, operandValues, poolVerifier, subgraphs, allowUnspecifiedRank, bits) ==
    IF ~validOperandType(version, versionedOperand.type)
    THEN FALSE
    ELSE LET operand == convertToV1_3(version, versionedOperand)
         IN  /\ validateRank(operand, allowUnspecifiedRank)
             /\ validateScale(operand)
             /\ validateZeroPoint(operand)
             /\ validateOperandExtraParams(operand)
             /\ validateLifetimeLocation(operand, operandValues, poolVerifier,
                                         subgraphs, bits)
             /\ validateSubgraphCoupling(operand)
             /\ validateConstantLength(operand)

\* validateOperands: the loop returns false at the first operand that fails.
validateOperands(version, ops, operandValues, ps, subgraphs, allowUnspecifiedRank, bits) ==
    LET poolVerifier == MemoryAccessVerifier(ps, bits)
    IN  \A k \in 1..Len(ops) :
            validateOperand(version, ops[k], operandValues, poolVerifier, subgraphs,
                            allowUnspecifiedRank, bits)

(***************************************************************************)
(* Operations.  An operation is [inputs, outputs, minHal]: the operand     *)
(* indexes it reads and writes, and the lowest HAL version at which the    *)
(* operator library accepts its type and signature on the operand table (4 *)
(* when no version accepts it).                                            *)
(***************************************************************************)
Operation(inputs, outputs, minHal) ==
    [inputs |-> inputs, outputs |-> outputs, minHal |-> minHal]

\* validateOperation of the operator library: every operand index of the
\* operation must be in [0, operandCount), then the operator's own signature
\* check decides.
validateOperation(op, operandTable, halVersion) ==
    IF \E i \in Range(op.inputs) \cup Range(op.outputs) : i >= Len(operandTable)
    THEN "ANEURALNETWORKS_BAD_DATA"
    ELSE IF halVersion >= op.minHal
    THEN "ANEURALNETWORKS_NO_ERROR"
    ELSE "ANEURALNETWORKS_BAD_DATA"

\* The state of the scan of validateOperations: ok is FALSE once the scan has
\* returned false, oob is TRUE once operands[i] or writtenTo[i] was evaluated
\* with i >= operandCount (undefined behaviour).
ScanState(ok, oob, writtenTo) == [ok |-> ok, oob |-> oob, writtenTo |-> writtenTo]

\* std::vector<bool> writtenTo(operandCount, false).
NoneWritten(operandCount) == [k \in 1..operandCount |-> FALSE]

\* Mutant: any lifetime may be written.
outputLifetimeOk_any(operand) == TRUE

\* validateOperations: the lifetime an operation output must have.
outputLifetimeOk(operand) ==
    ~(operand.lifetime # "TEMPORARY_VARIABLE" /\ operand.lifetime # "SUBGRAPH_OUTPUT")

\* Mutant: a second write is not noticed.
writtenTwice_never(writtenTo, i) == FALSE

\* validateOperations: "Check that we only write once to an operand".
writtenTwice(writtenTo, i) == At(writtenTo, i)

\* Mutant: the outputs of an operation are marked written once all of them
\* have been looked at.
writeOutputs_markedAfter(outputs, operandTable, writtenTo) ==
    IF \E k \in 1..Len(outputs) : outputs[k] >= Len(operandTable)
    THEN ScanState(FALSE, TRUE, writtenTo)
    ELSE IF \E k \in 1..Len(outputs) :
                \/ ~outputLifetimeOk(At(operandTable, outputs[k]))
                \/ writtenTwice(writtenTo, outputs[k])
    THEN ScanState(FALSE, FALSE, writtenTo)
    ELSE ScanState(TRUE, FALSE,
                   [j \in 1..Len(writtenTo) |-> writtenTo[j] \/ (j - 1) \in Range(outputs)])

\* validateOperations: the loop over op.outputs.
RECURSIVE writeOutputs(_, _, _)
writeOutputs(outputs, operandTable, writtenTo) ==
    IF outputs = <<>>
    THEN ScanState(TRUE, FALSE, writtenTo)
    ELSE LET i == Head(outputs)
         IN  IF i >= Len(operandTable)
             THEN ScanState(FALSE, TRUE, writtenTo)
             ELSE IF ~outputLifetimeOk(At(operandTable, i))
             THEN ScanState(FALSE, FALSE, writtenTo)
             ELSE IF writtenTwice(writtenTo, i)
             THEN ScanState(FALSE, FALSE, writtenTo)
             ELSE writeOutputs(Tail(outputs), operandTable,
                               [writtenTo EXCEPT ![i + 1] = TRUE])

\* Mutant: the error returned by validateOperation is ignored.
scanOperation_ignoreError(op, operandTable, halVersion, writtenTo) ==
    writeOutputs(op.outputs, operandTable, writtenTo)

\* validateOperations: the body of the loop over the operations.
scanOperation(op, operandTable, halVersion, writtenTo) ==
    IF validateOperation(op, operandTable, halVersion) # "ANEURALNETWORKS_NO_ERROR"
    THEN ScanState(FALSE, FALSE, writtenTo)
    ELSE writeOutputs(op.outputs, operandTable, writtenTo)

\* Mutant: only temporaries must have been written.
allWritten_temporariesOnly(operandTable, writtenTo) ==
    \A i \in 0..(Len(operandTable) - 1) :
        ~At(writtenTo, i) => ~(At(operandTable, i).lifetime = "TEMPORARY_VARIABLE")

\* Mutant: every operand must have been written.
allWritten_everyOperand(operandTable, writtenTo) ==
    \A i \in 0..(Len(operandTable) - 1) : At(writtenTo, i)

\* validateOperations: the final loop over the operands.
allWritten(operandTable, writtenTo) ==
    \A i \in 0..(Len(operandTable) - 1) :
        ~At(writtenTo, i) =>
            ~( \/ At(operandTable, i).lifetime = "TEMPORARY_VARIABLE"
               \/ At(operandTable, i).lifetime = "SUBGRAPH_OUTPUT" )

\* validateOperations: the loop over the operations, from scan state s.
RECURSIVE scanOperations(_, _, _, _)
scanOperations(ops, operandTable, halVersion, s) ==
    IF ops = <<>> \/ ~s.ok
    THEN s
    ELSE scanOperations(Tail(ops), operandTable, halVersion,
                        scanOperation(Head(ops), operandTable, halVersion, s.writtenTo))

\* validateOperations.  The subgraphs are only handed on to validateOperation.
validateOperations(ops, operandTable, halVersion) ==
    LET s == scanOperations(ops, operandTable, halVersion,
                            ScanState(TRUE, FALSE, NoneWritten(Len(operandTable))))
    IN  s.ok /\ allWritten(operandTable, s.writtenTo)

(***************************************************************************)
(* Pools, index lists, subgraph references, models.                        *)
(***************************************************************************)
\* Mutant: the hardware buffer names are supported at every version.
validatePool_anyVersion(pool, ver) ==
    IF pool.disc = "hidlMemory"
    THEN /\ pool.name \in {"ashmem", "mmap_fd", "hardware_buffer_blob", "hardware_buffer"}
         /\ pool.handle
    ELSE pool.token > 0

\* validatePool(const hidl_memory&, HalVersion) and
\* validatePool(const V1_3::Request::MemoryPool&, HalVersion).
validatePool(pool, ver) ==
    IF pool.disc = "hidlMemory"
    THEN IF /\ pool.name # "ashmem"
            /\ pool.name # "mmap_fd"
            /\ \/ ver < 2
               \/ pool.name # "hardware_buffer_blob" /\ pool.name # "hardware_buffer"
         THEN FALSE
         ELSE IF ~pool.handle
         THEN FALSE
         ELSE TRUE
    ELSE pool.token > 0

\* validatePools: std::all_of.
validatePools(ps, ver) == \A k \in 1..Len(ps) : validatePool(ps[k], ver)

\* std::sort of the index list, as an insertion sort.
RECURSIVE Insert(_, _)
Insert(x, sorted) ==
    IF sorted = <<>> THEN <<x>>
    ELSE IF x <= Head(sorted) THEN <<x>> \o sorted
    ELSE <<Head(sorted)>> \o Insert(x, Tail(sorted))

RECURSIVE Sort(_)
Sort(s) == IF s = <<>> THEN <<>> ELSE Insert(Head(s), Sort(Tail(s)))

\* std::adjacent_find(...) != end().
HasAdjacentEqual(s) == \E k \in 1..(Len(s) - 1) : s[k] = s[k + 1]

\* Mutant: the duplicate check is left out.
validateModelInputOutputs_noDuplicateCheck(indexes, operandTable, lifetime) ==
    \A k \in 1..Len(indexes) :
        /\ ~(indexes[k] >= Len(operandTable))
        /\ ~(At(operandTable, indexes[k]).lifetime # lifetime)

\* validateModelInputOutputs.
validateModelInputOutputs(indexes, operandTable, lifetime) ==
    IF \E k \in 1..Len(indexes) :
          \/ indexes[k] >= Len(operandTable)
          \/ At(operandTable, indexes[k]).lifetime # lifetime
    THEN FALSE
    ELSE LET sortedIndexes == Sort(indexes)
         IN  IF HasAdjacentEqual(sortedIndexes) THEN FALSE ELSE TRUE

Subgraph(operandTable, ops, inputIndexes, outputIndexes) ==
    [operands |-> operandTable, operations |-> ops, inputIndexes |-> inputIndexes,
     outputIndexes |-> outputIndexes]

\* A model of any version.  Below V1_3 main holds the model's own operands,
\* operations and index lists and referenced is empty.  operandValues is the
\* size() of the byte blob.
Model(main, referenced, operandValues, ps) ==
    [main |-> main, referenced |-> referenced, operandValues |-> operandValues,
     pools |-> ps]

\* The subgraph an address stands for: -1 is &model.main, k is
\* &model.referenced[k].
SubgraphAt(m, id) == IF id = -1 THEN m.main ELSE At(m.referenced, id)

\* The subgraph indexes the SUBGRAPH operands of a subgraph refer to.
References(subgraph) ==
    {subgraph.operands[k].location.offset.lo : k \in
        {j \in 1..Len(subgraph.operands) : subgraph.operands[j].lifetime = "SUBGRAPH"}}

\* The state of the walk of checkNoReferenceCycles: ok is the value returned,
\* path the std::set of the subgraphs entered and not left, oob is TRUE once
\* model.referenced was indexed past its end.
WalkState(ok, path, oob) == [ok |-> ok, path |-> path, oob |-> oob]

\* Mutant: a subgraph is not erased from the path when the walk leaves it.
leaveSubgraph_notErased(path, id) == path

\* path->erase(&subgraph).
leaveSubgraph(path, id) == path \ {id}

\* checkNoReferenceCycles(model, subgraph, path): the subgraph is inserted
\* in the path, the walk recurses into model.referenced[offset] for every
\* operand of lifetime SUBGRAPH in turn and returns false as soon as one
\* recursion does, and the subgraph is erased from the path at the end.
\* walkOperands is the loop from the k-th operand on.
RECURSIVE checkNoReferenceCyclesFrom(_, _, _)
RECURSIVE walkOperands(_, _, _, _)
walkOperands(m, id, k, path) ==
    LET subgraph == SubgraphAt(m, id)
    IN  IF k > Len(subgraph.operands)
        THEN WalkState(TRUE, leaveSubgraph(path, id), FALSE)
        ELSE IF subgraph.operands[k].lifetime = "SUBGRAPH"
        THEN LET offset == subgraph.operands[k].location.offset
             IN  IF U32GE(offset, Len(m.referenced))
                 THEN WalkState(FALSE, path, TRUE)
                 ELSE LET r == checkNoReferenceCyclesFrom(m, offset.lo, path)
                      IN  IF ~r.ok THEN r ELSE walkOperands(m, id, k + 1, r.path)
        ELSE walkOperands(m, id, k + 1, path)

checkNoReferenceCyclesFrom(m, id, path) ==
    IF id \in path
    THEN WalkState(FALSE, path, FALSE)
    ELSE walkOperands(m, id, 1, path \cup {id})

\* checkNoReferenceCycles(model).
checkNoReferenceCycles(m) == checkNoReferenceCyclesFrom(m, -1, {}).ok

\* convertToV1_3 of an operand table.
convertOperandsToV1_3(version, operandTable) ==
    [k \in 1..Len(operandTable) |-> convertToV1_3(version, operandTable[k])]

\* Mutant: the V1_3 lambda does not allow an unspecified rank.
validateSubgraph_rankRequired(m, subgraph, bits) ==
    /\ validateOperands(3, subgraph.operands, m.operandValues, m.pools, m.referenced, FALSE, bits)
    /\ validateOperations(subgraph.operations, subgraph.operands, 3)
    /\ validateModelInputOutputs(subgraph.inputIndexes, subgraph.operands, "SUBGRAPH_INPUT")
    /\ validateModelInputOutputs(subgraph.outputIndexes, subgraph.operands, "SUBGRAPH_OUTPUT")

\* The validateSubgraph lambda of validateModel<V1_3::Model>.
validateSubgraph(m, subgraph, bits) ==
    /\ validateOperands(3, subgraph.operands, m.operandValues, m.pools, m.referenced, TRUE, bits)
    /\ validateOperations(subgraph.operations, subgraph.operands, 3)
    /\ validateModelInputOutputs(subgraph.inputIndexes, subgraph.operands, "SUBGRAPH_INPUT")
    /\ validateModelInputOutputs(subgraph.outputIndexes, subgraph.operands, "SUBGRAPH_OUTPUT")

\* Mutant: a model with no operation or no operand is not rejected at once.
validateModel_emptyAllowed(version, m, bits) ==
    IF version < 3
    THEN LET latestVersionOperands == convertOperandsToV1_3(version, m.main.operands)
         IN  /\ validateOperands(version, m.main.operands, m.operandValues, m.pools, <<>>, version >= 2, bits)
             /\ validateOperations(m.main.operations, latestVersionOperands, version)
             /\ validateModelInputOutputs(m.main.inputIndexes, latestVersionOperands, "SUBGRAPH_INPUT")
             /\ validateModelInputOutputs(m.main.outputIndexes, latestVersionOperands, "SUBGRAPH_OUTPUT")
             /\ validatePools(m.pools, version)
    ELSE /\ validateSubgraph(m, m.main, bits)
         /\ \A k \in 1..Len(m.referenced) : validateSubgraph(m, m.referenced[k], bits)
         /\ validatePools(m.pools, 3)
         /\ checkNoReferenceCycles(m)

\* validateModel<T_Model> for V1_0, V1_1, V1_2 and its V1_3 specialization.
validateModel(version, m, bits) ==
    IF Len(m.main.operations) = 0 \/ Len(m.main.operands) = 0
    THEN FALSE
    ELSE IF version < 3
    THEN LET latestVersionOperands == convertOperandsToV1_3(version, m.main.operands)
         IN  /\ validateOperands(version, m.main.operands, m.operandValues, m.pools, <<>>, version >= 2, bits)
             /\ validateOperations(m.main.operations, latestVersionOperands, version)
             /\ validateModelInputOutputs(m.main.inputIndexes, latestVersionOperands, "SUBGRAPH_INPUT")
             /\ validateModelInputOutputs(m.main.outputIndexes, latestVersionOperands, "SUBGRAPH_OUTPUT")
             /\ validatePools(m.pools, version)
    ELSE /\ validateSubgraph(m, m.main, bits)
         /\ \A k \in 1..Len(m.referenced) : validateSubgraph(m, m.referenced[k], bits)
         /\ validatePools(m.pools, 3)
         /\ checkNoReferenceCycles(m)

\* The model a V1_N model becomes when it is handed to version N+1: a V1_0
\* operand gets no extraParams as a V1_2 operand; a V1_3 model holds the
\* V1_2 model's operands, operations and index lists as main and has no
\* referenced subgraph.  Pools and operandValues are kept.
upgradeModel(version, m) ==
    IF version < 2
    THEN [m EXCEPT !.main.operands = convertOperandsToV1_3(version, m.main.operands)]
    ELSE [m EXCEPT !.referenced = <<>>]

(***************************************************************************)
(* validateModel, stage by stage.  A stage is one operand of the && chain  *)
(* of validateModel: [stage, subgraph] names the check and the subgraph it *)
(* is applied to (-1 for main; the pools and the reference cycles belong   *)
(* to the model and carry -1).  The stages are evaluated in the order of   *)
(* the chain and the evaluation ends at the first stage that fails.        *)
(***************************************************************************)
Stage(stage, subgraph) == [stage |-> stage, subgraph |-> subgraph]

\* The four checks on one subgraph, in the order of the chain.
subgraphStages(id) ==
    <<Stage("validateOperands", id), Stage("validateOperations", id),
      Stage("inputIndexes", id), Stage("outputIndexes", id)>>

\* std::all_of over model.referenced.
RECURSIVE referencedStages(_)
referencedStages(n) ==
    IF n = 0 THEN <<>> ELSE referencedStages(n - 1) \o subgraphStages(n - 1)

\* The && chain of validateModel<T_Model> and of validateModel<V1_3::Model>.
stagesOfValidateModel(version, m) ==
    IF version < 3
    THEN subgraphStages(-1) \o <<Stage("validatePools", -1)>>
    ELSE subgraphStages(-1) \o referencedStages(Len(m.referenced))
         \o <<Stage("validatePools", -1), Stage("checkNoReferenceCycles", -1)>>

\* The value of one stage: ok is what the check returns, oob whether
\* model.referenced was indexed past its end.
evaluateStage(version, m, bits, s) ==
    LET subgraph == SubgraphAt(m, s.subgraph)
        latestVersionOperands == convertOperandsToV1_3(version, subgraph.operands)
        Result(ok) == [ok |-> ok, oob |-> FALSE]
    IN  CASE s.stage = "validateOperands" ->
               Result(validateOperands(version, subgraph.operands, m.operandValues, m.pools,
                                       IF version < 3 THEN <<>> ELSE m.referenced,
                                       version >= 2, bits))
          [] s.stage = "validateOperations" ->
               Result(validateOperations(subgraph.operations, latestVersionOperands, version))
          [] s.stage = "inputIndexes" ->
               Result(validateModelInputOutputs(subgraph.inputIndexes, latestVersionOperands, "SUBGRAPH_INPUT"))
          [] s.stage = "outputIndexes" ->
               Result(validateModelInputOutputs(subgraph.outputIndexes, latestVersionOperands, "SUBGRAPH_OUTPUT"))
          [] s.stage = "validatePools" ->
               Result(validatePools(m.pools, version))
          [] s.stage = "checkNoReferenceCycles" ->
               LET r == checkNoReferenceCyclesFrom(m, -1, {})
               IN  [ok |-> r.ok, oob |-> r.oob]

\* Mutant: the chain goes on after a stage has failed.
RECURSIVE evaluateStages_noShortCircuit(_, _, _, _, _, _)
evaluateStages_noShortCircuit(version, m, bits, stages, k, done) ==
    IF k > Len(stages)
    THEN done
    ELSE LET r == evaluateStage(version, m, bits, stages[k])
             next == [stages |-> Append(done.stages, [stage |-> stages[k], ok |-> r.ok]),
                      ok |-> done.ok /\ r.ok, oob |-> r.oob]
         IN  IF r.oob THEN next
             ELSE evaluateStages_noShortCircuit(version, m, bits, stages, k + 1, next)

\* The evaluation of the chain from its k-th stage on: done.stages are the
\* stages evaluated so far with their values.
RECURSIVE evaluateStages(_, _, _, _, _, _)
evaluateStages(version, m, bits, stages, k, done) ==
    IF k > Len(stages)
    THEN done
    ELSE LET r == evaluateStage(version, m, bits, stages[k])
             next == [stages |-> Append(done.stages, [stage |-> stages[k], ok |-> r.ok]),
                      ok |-> r.ok, oob |-> r.oob]
         IN  IF ~r.ok THEN next
             ELSE evaluateStages(version, m, bits, stages, k + 1, next)

\* validateModel with the stages it evaluates: an empty model is rejected
\* before the chain.
validateModelStages(version, m, bits) ==
    IF Len(m.main.operations) = 0 \/ Len(m.main.operands) = 0
    THEN [stages |-> <<>>, ok |-> FALSE, oob |-> FALSE]
    ELSE evaluateStages(version, m, bits, stagesOfValidateModel(version, m), 1,
                        [stages |-> <<>>, ok |-> TRUE, oob |-> FALSE])

(***************************************************************************)
(* Requests.                                                               *)
(***************************************************************************)
RequestArgument(hasNoValue, loc, dimensions) ==
    [hasNoValue |-> hasNoValue, location |-> loc, dimensions |-> dimensions]

Request(inputs, outputs, ps) == [inputs |-> inputs, outputs |-> outputs, pools |-> ps]

\* Mutant: a supplied dimension of zero is never an error.
validateRequestArgument_zeroDimAllowed(requestArgument, operand, poolVerifier, allowUnspecified, bits) ==
    LET loc == requestArgument.location
        rank == Len(requestArgument.dimensions)
    IN  IF requestArgument.hasNoValue
        THEN loc = ZeroLocation /\ rank = 0
        ELSE IF ~validate(poolVerifier, loc, bits)
        THEN FALSE
        ELSE IF rank = 0
        THEN allowUnspecified \/ \A i \in 0..(Len(operand.dimensions) - 1) : At(operand.dimensions, i) # 0
        ELSE IF rank # Len(operand.dimensions)
        THEN FALSE
        ELSE \A i \in 0..(rank - 1) :
                ~( /\ At(requestArgument.dimensions, i) # At(operand.dimensions, i)
                   /\ At(operand.dimensions, i) # 0 )

\* validateRequestArguments: the body of the loop for one argument.
validateRequestArgument(requestArgument, operand, poolVerifier, allowUnspecified, bits) ==
    LET loc == requestArgument.location
        rank == Len(requestArgument.dimensions)
    IN  IF requestArgument.hasNoValue
        THEN ~( \/ loc.poolIndex # 0
                \/ ~U32IsZero(loc.offset)
                \/ ~U32IsZero(loc.length)
                \/ Len(requestArgument.dimensions) # 0 )
        ELSE IF ~validate(poolVerifier, loc, bits)
        THEN FALSE
        ELSE IF rank = 0
        THEN IF ~allowUnspecified
             THEN \A i \in 0..(Len(operand.dimensions) - 1) :
                      ~(At(operand.dimensions, i) = 0)
             ELSE TRUE
        ELSE IF rank # Len(operand.dimensions)
        THEN FALSE
        ELSE \A i \in 0..(rank - 1) :
                /\ ~( /\ At(requestArgument.dimensions, i) # At(operand.dimensions, i)
                      /\ At(operand.dimensions, i) # 0 )
                /\ ~(At(requestArgument.dimensions, i) = 0 /\ ~allowUnspecified)

\* Mutant: only a request with too many arguments is turned down for its count.
validateRequestArguments_fewerAllowed(requestArguments, operandIndexes, operandTable, poolVerifier, allowUnspecified, bits) ==
    IF Len(requestArguments) > Len(operandIndexes)
    THEN FALSE
    ELSE \A k \in 1..Len(requestArguments) :
            validateRequestArgument(requestArguments[k], At(operandTable, operandIndexes[k]), poolVerifier, allowUnspecified, bits)

\* validateRequestArguments.  The model has been validated already, so every
\* operandIndexes[k] is an index of the operand table.
validateRequestArguments(requestArguments, operandIndexes, operandTable, poolVerifier, allowUnspecified, bits) ==
    IF Len(requestArguments) # Len(operandIndexes)
    THEN FALSE
    ELSE \A k \in 1..Len(requestArguments) :
            validateRequestArgument(requestArguments[k], At(operandTable, operandIndexes[k]), poolVerifier, allowUnspecified, bits)

\* validateRequest<T_Request, T_Model> and its V1_3 specialization.
validateRequest(version, request, m, bits) ==
    LET poolVerifier == MemoryAccessVerifier(request.pools, bits)
        latest == convertOperandsToV1_3(version, m.main.operands)
    IN  /\ validateRequestArguments(request.inputs, m.main.inputIndexes, latest, poolVerifier, FALSE, bits)
        /\ validateRequestArguments(request.outputs, m.main.outputIndexes, latest, poolVerifier, IF version < 3 THEN version >= 2 ELSE TRUE, bits)
        /\ validatePools(request.pools, version)

(***************************************************************************)
(* Argument menus.                                                         *)
(***************************************************************************)
U32Menu == {U32Of(0), U32Of(1), U32Of(16), U32(65535, 65520), U32Max}

PoolSizeMenu == {WideOf(0), WideOf(16), Wide(0, 65535, 65535), Wide(1, 0, 16)}

\* The pool sizes a build can see: a 32-bit process maps no pool of 4 GiB or more.
PoolSizes(bits) == {s \in PoolSizeMenu : bits = 64 \/ s.top = 0}

\* A tensor operand that validateOperands accepts at every version when its
\* lifetime is TEMPORARY_VARIABLE, SUBGRAPH_INPUT, SUBGRAPH_OUTPUT or NO_VALUE.
TensorOperand(lt) ==
    Operand("TENSOR_FLOAT32", <<2>>, "0.0", 0, lt, ZeroLocation, NoExtraParams)

\* A SUBGRAPH operand that refers to model.referenced[k].
SubgraphOperand(k) ==
    Operand("SUBGRAPH", <<>>, "0.0", 0, "SUBGRAPH", DataLocation(0, U32Of(k), U32Of(0)), NoExtraParams)

EmptySubgraph == Subgraph(<<>>, <<>>, <<>>, <<>>)

EmptyModel == Model(EmptySubgraph, <<>>, WideOf(0), <<>>)

EmptyRequest == Request(<<>>, <<>>, <<>>)

(***************************************************************************)
(* Execution plans (ExecutionPlan.h).  A plan is [mState, mSteps,          *)
(* mTemporaryToDefiningStep]: the fields of its CompoundBody are empty     *)
(* while the plan is EMPTY or SIMPLE.  The unordered_map is the set of its *)
(* <<key, value>> pairs.  A device is named by a string, "nullptr" for the *)
(* CPU.  A shared_ptr<StepExecutor> is the empty sequence when null and a  *)
(* one-element sequence holding the executor otherwise.  pc = "abort" once *)
(* an nnAssert has failed.                                                 *)
(***************************************************************************)
ExecutionStep(mIndex, mDevice) == [mIndex |-> mIndex, mDevice |-> mDevice]

ExecutionPlan(mState, mSteps, mTemporaryToDefiningStep) ==
    [mState |-> mState, mSteps |-> mSteps, mTemporaryToDefiningStep |-> mTemporaryToDefiningStep]

\* Controller::kBadStepIndex = ~size_t(0), a value no step index equals.
kBadStepIndex == -1

\* Mutant: a new controller starts at step 1.
Controller_startAtOne(p) == [mNextStepIndex |-> 1]

\* Controller(plan, executionBuilder): mNextStepIndex(0).
Controller(p) == [mNextStepIndex |-> 0]

\* Controller(), the error state.
BadController == [mNextStepIndex |-> kBadStepIndex]

\* ExecutionPlan::makeController.
makeController(p) == Controller(p)

\* The StepExecutor made for a step.
StepExecutor(step) == [step |-> step.mIndex, device |-> step.mDevice]

NullExecutor == <<>>

\* ExecutionPlan::next(controller, executor) on a compound plan: the
\* controller after the call and the value stored in *executor.
next(p, c) ==
    IF c.mNextStepIndex = kBadStepIndex
    THEN [result |-> "ANEURALNETWORKS_OP_FAILED", controller |-> c, executor |-> NullExecutor]
    ELSE IF c.mNextStepIndex >= Len(p.mSteps)
    THEN [result |-> "ANEURALNETWORKS_NO_ERROR", controller |-> BadController, executor |-> NullExecutor]
    ELSE [result |-> "ANEURALNETWORKS_NO_ERROR",
          controller |-> [mNextStepIndex |-> c.mNextStepIndex + 1],
          executor |-> <<StepExecutor(At(p.mSteps, c.mNextStepIndex))>>]

\* std::unordered_map::count and insert: insert leaves the map as it is
\* when the key is present.
count(map, key) == Cardinality({e \in map : e[1] = key})

insert(map, key, value) == IF count(map, key) = 0 THEN map \cup {<<key, value>>} ELSE map

\* Mutant: no assertion on the index being new.
recordTemporaryDef_unasserted(p, fromModelIndex, stepIndex) ==
    IF p.mState # "COMPOUND"
    THEN [aborted |-> TRUE, plan |-> p]
    ELSE [aborted |-> FALSE,
          plan |-> [p EXCEPT !.mTemporaryToDefiningStep = insert(@, fromModelIndex, stepIndex)]]

\* ExecutionPlan::recordTemporaryDef: compound() asserts mState == COMPOUND,
\* then the index is asserted to be absent and inserted.
recordTemporaryDef(p, fromModelIndex, stepIndex) ==
    IF p.mState # "COMPOUND"
    THEN [aborted |-> TRUE, plan |-> p]
    ELSE IF count(p.mTemporaryToDefiningStep, fromModelIndex) # 0
    THEN [aborted |-> TRUE, plan |-> p]
    ELSE [aborted |-> FALSE,
          plan |-> [p EXCEPT !.mTemporaryToDefiningStep = insert(@, fromModelIndex, stepIndex)]]

EmptyPlan == ExecutionPlan("EMPTY", <<>>, {})

\* The values of the variables a specification does not use.
IdleMem == pools = <<>> /\ location = ZeroLocation

IdleOperands == hal = 3 /\ operands = <<>>

IdleScan == operations = <<>> /\ written = <<>> /\ oobRead = FALSE

IdleIndexes == ioIndexes = <<>> /\ ioLifetime = "NO_VALUE"

IdleModel == model = EmptyModel

IdleRequest == req = EmptyRequest

IdlePlan == plan = EmptyPlan /\ controller = BadController /\ executor = NullExecutor /\ trace = <<>>

(***************************************************************************)
(* Specification SpecMem: one call of MemoryAccessVerifier::validate.      *)
(***************************************************************************)
InitMem ==
    /\ pc = "call"
    /\ ret = FALSE
    /\ sizeTBits \in {32, 64}
    /\ pools \in SeqsUpTo({HidlMemory("ashmem", s, TRUE) : s \in PoolSizes(sizeTBits)}
                          \cup {TokenPool(7)}, MaxPools)
    /\ location \in {DataLocation(p, o, l) :
                        p \in 0..MaxPools, o \in U32Menu, l \in U32Menu}
    /\ IdleOperands /\ IdleScan /\ IdleIndexes /\ IdleModel /\ IdleRequest /\ IdlePlan

Validate ==
    /\ pc = "call"
    /\ ret' = validate(MemoryAccessVerifier(pools, sizeTBits), location, sizeTBits)
    /\ pc' = "validate"
    /\ UNCHANGED <<sizeTBits, hal, pools, location, operands, operations, written, oobRead, ioIndexes, ioLifetime, model, req, plan, controller, executor, trace>>

NextMem == Validate

SpecMem == InitMem /\ [][NextMem]_vars

(***************************************************************************)
(* Specification SpecOperand: validateOperands and                         *)
(* validateOperandExtraParams on one operand, whose type, dimensions,      *)
(* scale and extraParams are drawn.  A V1_0 operand has no extraParams.    *)
(***************************************************************************)
ExtraParamsMenu ==
    {NoExtraParams, ExtensionParams}
    \cup {ChannelQuant(d, sc) : d \in 0..MaxRank, sc \in SeqsUpTo(Floats, MaxDim)}

OperandMenu(v) ==
    {Operand(t, d, sc, 0, lt,
             IF lt = "SUBGRAPH" THEN DataLocation(0, U32Of(0), U32Of(0)) ELSE ZeroLocation,
             x) :
        t \in OperandTypes, d \in SeqsUpTo({0, MaxDim}, MaxRank), sc \in {"0.0", "1.0"},
        lt \in {"TEMPORARY_VARIABLE", "SUBGRAPH"},
        x \in IF v < 2 THEN {NoExtraParams} ELSE ExtraParamsMenu}

InitOperand ==
    /\ pc = "call"
    /\ ret = FALSE
    /\ sizeTBits = 64
    /\ hal \in 0..3
    /\ operands \in {<<o>> : o \in OperandMenu(hal)}
    /\ IdleMem /\ IdleScan /\ IdleIndexes /\ IdleModel /\ IdleRequest /\ IdlePlan

\* The referenced subgraphs of the model the operand belongs to.
SubgraphsOf(v) == IF v = 3 THEN <<EmptySubgraph>> ELSE <<>>

ValidateOperands ==
    /\ pc = "call"
    /\ ret' = validateOperands(hal, operands, WideOf(0), <<>>, SubgraphsOf(hal), hal >= 2, sizeTBits)
    /\ pc' = "validateOperands"
    /\ UNCHANGED <<sizeTBits, hal, pools, location, operands, operations, written, oobRead, ioIndexes, ioLifetime, model, req, plan, controller, executor, trace>>

ValidateOperandExtraParams ==
    /\ pc = "call"
    /\ ret' = validateOperandExtraParams(convertToV1_3(hal, operands[1]))
    /\ pc' = "validateOperandExtraParams"
    /\ UNCHANGED <<sizeTBits, hal, pools, location, operands, operations, written, oobRead, ioIndexes, ioLifetime, model, req, plan, controller, executor, trace>>

NextOperand == ValidateOperands \/ ValidateOperandExtraParams

SpecOperand == InitOperand /\ [][NextOperand]_vars

(***************************************************************************)
(* Specification SpecOps: validateOperations, one iteration of the loop    *)
(* over the operations per step.  The operand table is drawn in the        *)
(* initial state (validateOperations reads only the lifetimes); each       *)
(* iteration draws the next operation of the list, and EndOfOperations is  *)
(* the end of the list.  operations is the list as scanned so far.         *)
(***************************************************************************)
OperationMenu(n) ==
    {Operation(ins, outs, h) :
        ins \in {<<>>, <<0>>, <<n>>}, outs \in SeqsUpTo(0..n, MaxOutputs), h \in {0, 4}}

\* validateOperations treats all operand indexes alike, so the operand tables
\* are drawn with their lifetimes in this order.
LifeTimeOrder ==
    <<"TEMPORARY_VARIABLE", "SUBGRAPH_OUTPUT", "SUBGRAPH_INPUT", "CONSTANT_COPY",
      "CONSTANT_REFERENCE", "NO_VALUE", "SUBGRAPH">>

NonDecreasingSeqs(S, n) == {s \in SeqsUpTo(S, n) : \A j, k \in 1..Len(s) : j < k => s[j] <= s[k]}

InitOps ==
    /\ pc = "loop"
    /\ ret = FALSE
    /\ sizeTBits = 64
    /\ hal = 3
    /\ operands \in {[k \in 1..Len(t) |-> TensorOperand(LifeTimeOrder[t[k]])] :
                        t \in NonDecreasingSeqs(1..Len(LifeTimeOrder), MaxOperands)}
    /\ operations = <<>>
    /\ written = NoneWritten(Len(operands))
    /\ oobRead = FALSE
    /\ IdleMem /\ IdleIndexes /\ IdleModel /\ IdleRequest /\ IdlePlan

\* One iteration of the loop.  Once an element past the end of the operand
\* table was accessed the behaviour is undefined: any result may be returned.
ScanOperation ==
    /\ pc = "loop"
    /\ Len(operations) < MaxOperations
    /\ \E op \in OperationMenu(Len(operands)) :
          LET s == scanOperation(op, operands, hal, written)
          IN  /\ operations' = Append(operations, op)
              /\ written' = s.writtenTo
              /\ oobRead' = s.oob
              /\ IF s.oob
                 THEN pc' = "validateOperations" /\ ret' \in BOOLEAN
                 ELSE IF ~s.ok
                 THEN pc' = "validateOperations" /\ ret' = FALSE
                 ELSE pc' = "loop" /\ ret' = ret
    /\ UNCHANGED <<sizeTBits, hal, pools, location, operands, ioIndexes, ioLifetime, model, req, plan, controller, executor, trace>>

\* The list of operations ends: the final loop over the operands.
EndOfOperations ==
    /\ pc = "loop"
    /\ ret' = allWritten(operands, written)
    /\ pc' = "validateOperations"
    /\ UNCHANGED <<sizeTBits, hal, pools, location, operands, operations, written, oobRead, ioIndexes, ioLifetime, model, req, plan, controller, executor, trace>>

NextOps == ScanOperation \/ EndOfOperations

SpecOps == InitOps /\ [][NextOps]_vars

\* The operations scanned so far that list operand index i as an output.
Writers(i) == {k \in 1..Len(operations) : i \in Range(operations[k].outputs)}

OperandIndexes == 0..(Len(operands) - 1)

Accepted == pc = "validateOperations" /\ ret

Rejected == pc = "validateOperations" /\ ~ret

\* The operation passes the operator library and would pass the scan of its
\* outputs if nothing had been written before it.
FineAlone(op) == scanOperation(op, operands, hal, NoneWritten(Len(operands))).ok

(***************************************************************************)
(* C1.  Write-once: while validateOperations scans the operations, every   *)
(* operand index is an output of at most one scanned operation and         *)
(* writtenTo marks exactly the operands written so far; as soon as a       *)
(* second operation lists an operand an earlier one listed,                *)
(* validateOperations has returned false, so no accepted list has two      *)
(* operations writing the same operand.                                    *)
(***************************************************************************)
C1_WriteOnce ==
    /\ pc = "loop" =>
          \A i \in OperandIndexes :
              /\ Cardinality(Writers(i)) <= 1
              /\ At(written, i) <=> Writers(i) # {}
    /\ (\E i \in 0..MaxOperands : Cardinality(Writers(i)) >= 2) => Rejected

\* The second of two operations, each fine alone, lists the output of the first.
C1_Witness ==
    /\ Rejected
    /\ Len(operations) = 2
    /\ FineAlone(operations[1]) /\ FineAlone(operations[2])
    /\ \E i \in OperandIndexes : Writers(i) = {1, 2}

(***************************************************************************)
(* C2.  In every accepted list of operations each operand of lifetime      *)
(* TEMPORARY_VARIABLE or SUBGRAPH_OUTPUT is written by exactly one         *)
(* operation; when the call has returned and some such operand is listed   *)
(* by no operation, it has returned false.                                 *)
(***************************************************************************)
MustBeWritten(i) == At(operands, i).lifetime \in {"TEMPORARY_VARIABLE", "SUBGRAPH_OUTPUT"}

C2_ExactlyOneWriter ==
    /\ Accepted => \A i \in OperandIndexes : MustBeWritten(i) => Cardinality(Writers(i)) = 1
    /\ (pc = "validateOperations" /\ \E i \in OperandIndexes : MustBeWritten(i) /\ Writers(i) = {})
          => ~ret

\* Every operation of the list is accepted, and the final loop finds a
\* SUBGRAPH_OUTPUT that was never written.
C2_Witness ==
    /\ Rejected
    /\ Len(operations) >= 1
    /\ scanOperations(operations, operands, hal, ScanState(TRUE, FALSE, NoneWritten(Len(operands)))).ok
    /\ \E i \in OperandIndexes : At(operands, i).lifetime = "SUBGRAPH_OUTPUT" /\ Writers(i) = {}
    /\ \A i \in OperandIndexes : At(operands, i).lifetime # "TEMPORARY_VARIABLE"

(***************************************************************************)
(* C7.  validateOperations never accesses the operand table (or writtenTo) *)
(* past its end, and every operand index in the inputs or outputs of an    *)
(* operation that passed the scan is in [0, operandCount).                 *)
(***************************************************************************)
IndexesInRange(op) == \A i \in Range(op.inputs) \cup Range(op.outputs) : i < Len(operands)

WritesOtherLifetime(op) ==
    \E i \in Range(op.outputs) :
        i < Len(operands) /\ ~MustBeWritten(i)

C8_OutputLifetimes ==
    (\E k \in 1..Len(operations) : WritesOtherLifetime(operations[k])) => Rejected

\* The only operation is fine but for its one output, whose lifetime is CONSTANT_COPY.
C8_Witness ==
    /\ Rejected
    /\ Len(operations) = 1
    /\ validateOperation(operations[1], operands, hal) = "ANEURALNETWORKS_NO_ERROR"
    /\ Len(operations[1].outputs) = 1
    /\ At(operands, operations[1].outputs[1]).lifetime = "CONSTANT_COPY"

(***************************************************************************)
(* C4.  MemoryAccessVerifier::validate(location) returns true exactly when *)
(* poolIndex < poolCount and offset + length, computed without wrap-around,*)
(* is at most the size of that pool.                                       *)
(***************************************************************************)
InRangeNoWrap(ps, loc) ==
    /\ loc.poolIndex < Len(ps)
    /\ WideLE(ExactAdd(ToSizeT(loc.offset), loc.length),
              IF At(ps, loc.poolIndex).disc = "hidlMemory"
              THEN At(ps, loc.poolIndex).size ELSE WideOf(0))

C4_ValidateIffInRangeNoWrap ==
    pc = "validate" => (ret <=> InRangeNoWrap(pools, location))

(***************************************************************************)
(* C9.  An operand whose type is neither TENSOR_QUANT8_SYMM_PER_CHANNEL    *)
(* nor an extension type and whose extraParams is not `none` is rejected   *)
(* by validateOperands.                                                    *)
(***************************************************************************)
C9_OrdinaryTypesRequireNone ==
    ( /\ pc = "validateOperands"
      /\ operands[1].type \notin {"TENSOR_QUANT8_SYMM_PER_CHANNEL", "EXTENSION"}
      /\ operands[1].extraParams.disc # "none" )
        => ~ret

(***************************************************************************)
(* C10.  validateOperandExtraParams accepts a                              *)
(* TENSOR_QUANT8_SYMM_PER_CHANNEL operand exactly when its extraParams is  *)
(* channelQuant, channelDim < rank, dimensions[channelDim] is not 0, there *)
(* are dimensions[channelDim] scales and every scale is strictly positive. *)
(***************************************************************************)
StrictlyPositive(f) == f = "1.0"

ChannelQuantWellFormed(operand) ==
    /\ operand.extraParams.disc = "channelQuant"
    /\ operand.extraParams.channelDim < Len(operand.dimensions)
    /\ At(operand.dimensions, operand.extraParams.channelDim) # 0
    /\ Len(operand.extraParams.scales) = At(operand.dimensions, operand.extraParams.channelDim)
    /\ \A f \in Range(operand.extraParams.scales) : StrictlyPositive(f)

C10_PerChannelExtraParams ==
    (pc = "validateOperandExtraParams" /\ operands[1].type = "TENSOR_QUANT8_SYMM_PER_CHANNEL")
        => (ret <=> ChannelQuantWellFormed(convertToV1_3(hal, operands[1])))

\* A per-channel operand of rank 2 quantized along its last dimension is accepted.
C10_Witness ==
    /\ pc = "validateOperandExtraParams"
    /\ operands[1].type = "TENSOR_QUANT8_SYMM_PER_CHANNEL"
    /\ Len(operands[1].dimensions) = 2
    /\ operands[1].extraParams.channelDim = 1
    /\ Len(operands[1].extraParams.scales) >= 2
    /\ ret

(***************************************************************************)
(* Specification SpecIO: validateModelInputOutputs on a drawn index list,  *)
(* and validateModel on a model that has this list as its inputIndexes or  *)
(* outputIndexes and is well-formed in every other respect: its one        *)
(* operation writes every TEMPORARY_VARIABLE and SUBGRAPH_OUTPUT, and the  *)
(* other index list names each operand of its lifetime once.               *)
(***************************************************************************)
RECURSIVE IndexesWhere(_, _, _)
IndexesWhere(operandTable, lifetimes, i) ==
    IF i >= Len(operandTable) THEN <<>>
    ELSE (IF At(operandTable, i).lifetime \in lifetimes THEN <<i>> ELSE <<>>)
         \o IndexesWhere(operandTable, lifetimes, i + 1)

ModelWith(operandTable, indexes, lifetime) ==
    Model(Subgraph(operandTable,
                   <<Operation(<<>>, IndexesWhere(operandTable, {"TEMPORARY_VARIABLE", "SUBGRAPH_OUTPUT"}, 0), 0)>>,
                   IF lifetime = "SUBGRAPH_INPUT" THEN indexes
                   ELSE IndexesWhere(operandTable, {"SUBGRAPH_INPUT"}, 0),
                   IF lifetime = "SUBGRAPH_OUTPUT" THEN indexes
                   ELSE IndexesWhere(operandTable, {"SUBGRAPH_OUTPUT"}, 0)),
          <<>>, WideOf(0), <<>>)

InitIO ==
    /\ pc = "call"
    /\ ret = FALSE
    /\ sizeTBits = 64
    /\ hal \in 0..3
    /\ operands \in SeqsUpTo({TensorOperand(lt) : lt \in {"SUBGRAPH_INPUT", "SUBGRAPH_OUTPUT", "TEMPORARY_VARIABLE"}},
                             MaxOperands) \ {<<>>}
    /\ ioIndexes \in SeqsUpTo(0..Len(operands), MaxIndexes)
    /\ ioLifetime \in {"SUBGRAPH_INPUT", "SUBGRAPH_OUTPUT"}
    /\ model = ModelWith(operands, ioIndexes, ioLifetime)
    /\ IdleMem /\ IdleScan /\ IdleRequest /\ IdlePlan

ValidateModelInputOutputs ==
    /\ pc = "call"
    /\ ret' = validateModelInputOutputs(ioIndexes, operands, ioLifetime)
    /\ pc' = "validateModelInputOutputs"
    /\ UNCHANGED <<sizeTBits, hal, pools, location, operands, operations, written, oobRead, ioIndexes, ioLifetime, model, req, plan, controller, executor, trace>>

ValidateModel ==
    /\ pc = "call"
    /\ ret' = validateModel(hal, model, sizeTBits)
    /\ pc' = "validateModel"
    /\ UNCHANGED <<sizeTBits, hal, pools, location, operands, operations, written, oobRead, ioIndexes, ioLifetime, model, req, plan, controller, executor, trace>>

NextIO == ValidateModelInputOutputs \/ ValidateModel

SpecIO == InitIO /\ [][NextIO]_vars

HasDuplicate(s) == \E j, k \in 1..Len(s) : j # k /\ s[j] = s[k]

(***************************************************************************)
(* C6.  validateModelInputOutputs(indexes, operands, lifetime) accepts     *)
(* exactly when every index is below the operand count, every operand      *)
(* named has the expected lifetime, and no index occurs twice; hence       *)
(* validateModel rejects every model whose inputIndexes or outputIndexes   *)
(* list holds a duplicate.                                                 *)
(***************************************************************************)
C6_InputOutputIndexes ==
    /\ pc = "validateModelInputOutputs" =>
          ( ret <=> /\ \A k \in 1..Len(ioIndexes) :
                          /\ ioIndexes[k] < Len(operands)
                          /\ At(operands, ioIndexes[k]).lifetime = ioLifetime
                    /\ ~HasDuplicate(ioIndexes) )
    /\ (pc = "validateModel" /\ HasDuplicate(ioIndexes)) => ~ret

\* The model is rejected for naming one operand of the right lifetime twice:
\* naming it once, the model is accepted.
C6_Witness ==
    /\ pc = "validateModel"
    /\ ~ret
    /\ Len(ioIndexes) = 2
    /\ ioIndexes[1] = ioIndexes[2]
    /\ validateModel(hal, ModelWith(operands, <<ioIndexes[1]>>, ioLifetime), sizeTBits)

(***************************************************************************)
(* Specification SpecCycles: validateModel on a V1_3 model whose main and  *)
(* referenced subgraphs each have one input, one output, one operation and *)
(* SUBGRAPH operands that refer to drawn subgraph indexes, the index one   *)
(* past the last referenced subgraph included.                             *)
(***************************************************************************)
AscendingSeqs(S, n) == {s \in SeqsUpTo(S, n) : \A j, k \in 1..Len(s) : j < k => s[j] < s[k]}

ReferringSubgraph(refs) ==
    Subgraph(<<TensorOperand("SUBGRAPH_INPUT"), TensorOperand("SUBGRAPH_OUTPUT")>>
                 \o [k \in 1..Len(refs) |-> SubgraphOperand(refs[k])],
             <<Operation(<<0>>, <<1>>, 0)>>, <<0>>, <<1>>)

ReferringSubgraphs == {ReferringSubgraph(refs) : refs \in AscendingSeqs(0..MaxReferenced, MaxRefs)}

InitCycles ==
    /\ pc = "call"
    /\ ret = FALSE
    /\ sizeTBits = 64
    /\ hal = 3
    /\ model \in {Model(main, referenced, WideOf(0), <<>>) :
                     main \in ReferringSubgraphs,
                     referenced \in SeqsUpTo(ReferringSubgraphs, MaxReferenced)}
    /\ operands = <<>>
    /\ IdleMem /\ IdleScan /\ IdleIndexes /\ IdleRequest /\ IdlePlan

NextCycles == ValidateModel

SpecCycles == InitCycles /\ [][NextCycles]_vars

SubgraphIds == {-1} \cup (0..(Len(model.referenced) - 1))

\* The subgraphs reached from the subgraphs of frontier by following SUBGRAPH operands.
RECURSIVE ReachedFrom(_, _)
ReachedFrom(frontier, seen) ==
    IF frontier \subseteq seen THEN seen
    ELSE ReachedFrom(UNION {References(SubgraphAt(model, id)) : id \in frontier \ seen},
                     seen \cup frontier)

OnReferenceCycle(id) == id \in ReachedFrom(References(SubgraphAt(model, id)), {})

(***************************************************************************)
(* C3.  In every V1_3 model that validateModel accepts the subgraph        *)
(* reference graph is acyclic: no subgraph, main or referenced, reachable  *)
(* from main or not, reaches itself by following SUBGRAPH operands.        *)
(***************************************************************************)
C3_AcceptedModelsAcyclic ==
    (pc = "validateModel" /\ hal = 3 /\ ret) => \A id \in SubgraphIds : ~OnReferenceCycle(id)

(***************************************************************************)
(* Specification SpecRequest: validateRequest against a well-formed model  *)
(* of one input and one output.  The request has one input argument, whose *)
(* location and dimensions are drawn, and one output argument.  Memory     *)
(* domain tokens exist in V1_3 requests only.                              *)
(***************************************************************************)
RequestModel ==
    Model(Subgraph(<<TensorOperand("SUBGRAPH_INPUT"), TensorOperand("SUBGRAPH_OUTPUT")>>,
                   <<Operation(<<0>>, <<1>>, 0)>>, <<0>>, <<1>>),
          <<>>, WideOf(0), <<>>)

RequestPoolMenu(v) ==
    {HidlMemory("ashmem", WideOf(16), TRUE)} \cup (IF v = 3 THEN {TokenPool(7)} ELSE {})

InitRequest ==
    /\ pc = "call"
    /\ ret = FALSE
    /\ sizeTBits \in {32, 64}
    /\ hal \in 0..3
    /\ model = RequestModel
    /\ req \in {Request(<<RequestArgument(nv, DataLocation(p, o, l), d)>>, <<out>>, ps) :
                   nv \in BOOLEAN, p \in 0..MaxPools, o \in U32Menu, l \in U32Menu,
                   d \in {<<>>, <<2>>},
                   out \in {RequestArgument(TRUE, ZeroLocation, <<>>),
                            RequestArgument(FALSE, ZeroLocation, <<2>>)},
                   ps \in SeqsUpTo(RequestPoolMenu(hal), MaxPools)}
    /\ operands = <<>>
    /\ IdleMem /\ IdleScan /\ IdleIndexes /\ IdlePlan

ValidateRequest ==
    /\ pc = "call"
    /\ ret' = validateRequest(hal, req, model, sizeTBits)
    /\ pc' = "validateRequest"
    /\ UNCHANGED <<sizeTBits, hal, pools, location, operands, operations, written, oobRead, ioIndexes, ioLifetime, model, req, plan, controller, executor, trace>>

NextRequest == ValidateRequest

SpecRequest == InitRequest /\ [][NextRequest]_vars

OnTokenPool(arg) ==
    /\ ~arg.hasNoValue
    /\ arg.location.poolIndex < Len(req.pools)
    /\ At(req.pools, arg.location.poolIndex).disc = "token"

(***************************************************************************)
(* C5.  A V1_3 request in which an argument that has a value names a       *)
(* memory-domain token pool with a non-zero offset or a non-zero length is *)
(* rejected by validateRequest: a token pool counts as a pool of size 0.   *)
(***************************************************************************)
C5_TokenPoolArgumentsEmpty ==
    ( /\ pc = "validateRequest"
      /\ hal = 3
      /\ \E arg \in Range(req.inputs) \cup Range(req.outputs) :
            /\ OnTokenPool(arg)
            /\ ~U32IsZero(arg.location.offset) \/ ~U32IsZero(arg.location.length) )
        => ~ret

(***************************************************************************)
(* Specification SpecQuant: validateOperands on one operand whose type,    *)
(* scale and zeroPoint are drawn; its rank, lifetime, location and         *)
(* extraParams are the ones its type asks for.                             *)
(***************************************************************************)
ZeroPointMenu == {-129, -128, -1, 0, 1, 127, 128, 255, 256, 65535, 65536}

QuantOperand(t, sc, zp) ==
    Operand(t, IF t \in TensorTypes THEN <<1>> ELSE <<>>, sc, zp,
            IF t = "SUBGRAPH" THEN "SUBGRAPH" ELSE "TEMPORARY_VARIABLE",
            ZeroLocation,
            IF t = "TENSOR_QUANT8_SYMM_PER_CHANNEL" THEN ChannelQuant(0, <<"1.0">>) ELSE NoExtraParams)

InitQuant ==
    /\ pc = "call"
    /\ ret = FALSE
    /\ sizeTBits = 64
    /\ hal \in 0..3
    /\ operands \in {<<QuantOperand(t, sc, zp)>> : t \in OperandTypes, sc \in Floats, zp \in ZeroPointMenu}
    /\ IdleMem /\ IdleScan /\ IdleIndexes /\ IdleModel /\ IdleRequest /\ IdlePlan

NextQuant == ValidateOperands

SpecQuant == InitQuant /\ [][NextQuant]_vars

OemTypes == {"OEM", "TENSOR_OEM_BYTE"}

\* What validateOperands answers for the operand under validation with field
\* values replaced.
AcceptedWith(operand) ==
    validateOperands(hal, <<operand>>, WideOf(0), <<>>, SubgraphsOf(hal), hal >= 2, sizeTBits)

ZeroPointInRange(type, zp) ==
    CASE type = "TENSOR_QUANT8_ASYMM" -> zp \in 0..255
      [] type = "TENSOR_QUANT8_ASYMM_SIGNED" -> zp \in (-128)..127
      [] type = "TENSOR_QUANT16_ASYMM" -> zp \in 0..65535
      [] OTHER -> zp = 0

(***************************************************************************)
(* C11.  Zero-point rule: an operand of a non-OEM type that validateOperands*)
(* accepts with zeroPoint 0 is accepted with another zeroPoint exactly     *)
(* when that zeroPoint is in [0, 255] for TENSOR_QUANT8_ASYMM, in          *)
(* [-128, 127] for TENSOR_QUANT8_ASYMM_SIGNED, in [0, 65535] for           *)
(* TENSOR_QUANT16_ASYMM and 0 for every other type.                        *)
(***************************************************************************)
C11_ZeroPointRule ==
    (pc = "validateOperands" /\ operands[1].type \notin OemTypes)
        => ( ret <=> /\ ZeroPointInRange(operands[1].type, operands[1].zeroPoint)
                     /\ AcceptedWith([operands[1] EXCEPT !.zeroPoint = 0]) )

\* The boundary 127 of TENSOR_QUANT8_ASYMM_SIGNED is accepted.
C11_Witness ==
    /\ pc = "validateOperands"
    /\ operands[1].type = "TENSOR_QUANT8_ASYMM_SIGNED"
    /\ operands[1].zeroPoint = 127
    /\ ret

ScaleInRange(type, sc) ==
    CASE type = "TENSOR_INT32" -> sc \in {"0.0", "1.0"}
      [] type \in {"TENSOR_QUANT8_ASYMM", "TENSOR_QUANT8_ASYMM_SIGNED", "TENSOR_QUANT8_SYMM",
                   "TENSOR_QUANT16_ASYMM", "TENSOR_QUANT16_SYMM"} -> sc = "1.0"
      [] OTHER -> sc = "0.0"

(***************************************************************************)
(* C12.  Scale rule: an operand of a non-OEM type that validateOperands    *)
(* accepts with a scale its type allows is accepted with another scale     *)
(* exactly when that scale is 0 for scalars, float and bool tensors,       *)
(* per-channel tensors and extension types, >= 0 for TENSOR_INT32 and > 0  *)
(* for the other quantized tensors.                                        *)
(***************************************************************************)
C12_ScaleRule ==
    (pc = "validateOperands" /\ operands[1].type \notin OemTypes)
        => ( ret <=> /\ ScaleInRange(operands[1].type, operands[1].scale)
                     /\ \E sc \in Floats : AcceptedWith([operands[1] EXCEPT !.scale = sc]) )

(***************************************************************************)
(* Specification SpecRank: validateModel on a model built around one drawn *)
(* operand, placed in main or (V1_3) in a referenced subgraph.  The type,  *)
(* rank and lifetime of the operand are drawn; its other fields, the       *)
(* operation and the index lists are the ones its type and lifetime ask    *)
(* for.  validateOperands is also applied to the operand alone, with the   *)
(* arguments validateModel hands it.                                       *)
(***************************************************************************)
QuantizedTypes ==
    {"TENSOR_QUANT8_ASYMM", "TENSOR_QUANT8_ASYMM_SIGNED", "TENSOR_QUANT8_SYMM",
     "TENSOR_QUANT16_ASYMM", "TENSOR_QUANT16_SYMM"}

Constants == {"CONSTANT_COPY", "CONSTANT_REFERENCE"}

RankOperand(t, d, lt) ==
    Operand(t, d, IF t \in QuantizedTypes THEN "1.0" ELSE "0.0", 0, lt,
            IF lt \in Constants
            THEN DataLocation(0, U32Of(0), U32Of(sizeOfElement(t) * Product(d)))
            ELSE ZeroLocation,
            IF t = "TENSOR_QUANT8_SYMM_PER_CHANNEL"
            THEN ChannelQuant(0, [k \in 1..Product(d) |-> "1.0"])
            ELSE NoExtraParams)

\* A subgraph of one input, one output and the operand, whose one operation
\* writes what must be written.
SubgraphAround(o) ==
    LET operandTable == <<TensorOperand("SUBGRAPH_INPUT"), TensorOperand("SUBGRAPH_OUTPUT"), o>>
    IN  Subgraph(operandTable,
                 <<Operation(<<0>>, IndexesWhere(operandTable, {"TEMPORARY_VARIABLE", "SUBGRAPH_OUTPUT"}, 0), 0)>>,
                 IndexesWhere(operandTable, {"SUBGRAPH_INPUT"}, 0),
                 IndexesWhere(operandTable, {"SUBGRAPH_OUTPUT"}, 0))

ModelAround(v, o, inMain) ==
    Model(IF inMain THEN SubgraphAround(o) ELSE ReferringSubgraph(<<>>),
          IF v = 3 THEN <<IF inMain THEN ReferringSubgraph(<<>>) ELSE SubgraphAround(o)>> ELSE <<>>,
          WideOf(16), <<HidlMemory("ashmem", WideOf(16), TRUE)>>)

InitRank ==
    /\ pc = "call"
    /\ ret = FALSE
    /\ sizeTBits = 64
    /\ hal \in 0..3
    /\ operands \in {<<RankOperand(t, d, lt)>> : t \in OperandTypes, d \in {<<>>, <<2>>}, lt \in OperandLifeTimes}
    /\ model \in {ModelAround(hal, operands[1], inMain) : inMain \in {TRUE} \cup {hal # 3}}
    /\ IdleMem /\ IdleScan /\ IdleIndexes /\ IdleRequest /\ IdlePlan

\* validateOperands with the arguments validateModel hands it.
ValidateOperandsOfModel ==
    /\ pc = "call"
    /\ ret' = validateOperands(hal, operands, model.operandValues, model.pools, model.referenced, hal >= 2, sizeTBits)
    /\ pc' = "validateOperands"
    /\ UNCHANGED <<sizeTBits, hal, pools, location, operands, operations, written, oobRead, ioIndexes, ioLifetime, model, req, plan, controller, executor, trace>>

NextRank == ValidateModel \/ ValidateOperandsOfModel

SpecRank == InitRank /\ [][NextRank]_vars

\* Every operand of every subgraph of the model.
OperandsOfModel ==
    Range(model.main.operands)
    \cup UNION {Range(model.referenced[k].operands) : k \in 1..Len(model.referenced)}

(***************************************************************************)
(* C13.  Rank rule: in an accepted model every scalar-typed operand has    *)
(* rank 0, and a tensor-typed operand of rank 0 occurs only at HAL >= v1.2 *)
(* (in main or in a referenced subgraph) with a lifetime other than        *)
(* CONSTANT_COPY and CONSTANT_REFERENCE; at HAL >= v1.2 a model accepted   *)
(* with such a tensor of rank 1 is accepted with the tensor of rank 0 too. *)
(***************************************************************************)
C13_RankRule ==
    /\ (pc = "validateModel" /\ ret) =>
          \A o \in OperandsOfModel :
              /\ o.type \in ScalarTypes => Len(o.dimensions) = 0
              /\ (o.type \in TensorTypes /\ Len(o.dimensions) = 0) =>
                    (hal >= 2 /\ o.lifetime \notin Constants)
    /\ ( /\ pc = "validateModel"
         /\ hal >= 2
         /\ operands[1].type \in TensorTypes \ {"TENSOR_QUANT8_SYMM_PER_CHANNEL"}
         /\ operands[1].dimensions = <<>>
         /\ operands[1].lifetime \notin Constants
         /\ \E inMain \in BOOLEAN :
               /\ model = ModelAround(hal, operands[1], inMain)
               /\ validateModel(hal, ModelAround(hal, RankOperand(operands[1].type, <<2>>, operands[1].lifetime), inMain), sizeTBits) )
          => ret

\* A V1_3 model is accepted with a tensor of rank 0 in its referenced subgraph.
C13_Witness ==
    /\ pc = "validateModel"
    /\ ret
    /\ hal = 3
    /\ \E o \in Range(model.referenced[1].operands) :
          o.type = "TENSOR_FLOAT32" /\ o.dimensions = <<>> /\ o.lifetime = "TEMPORARY_VARIABLE"

(***************************************************************************)
(* C15.  SUBGRAPH coupling: in an accepted model every operand has type    *)
(* SUBGRAPH if and only if it has lifetime SUBGRAPH, and validateOperands  *)
(* rejects an operand that has exactly one of the two.                     *)
(***************************************************************************)
C15_SubgraphCoupling ==
    /\ (pc = "validateModel" /\ ret) =>
          \A o \in OperandsOfModel : o.type = "SUBGRAPH" <=> o.lifetime = "SUBGRAPH"
    /\ ( /\ pc = "validateOperands"
         /\ (operands[1].type = "SUBGRAPH") # (operands[1].lifetime = "SUBGRAPH") )
          => ~ret

\* At V1_3 a rank-0 operand of type SUBGRAPH and lifetime TEMPORARY_VARIABLE,
\* valid in every other respect, is rejected by validateOperands.
C15_Witness ==
    /\ pc = "validateOperands"
    /\ ~ret
    /\ hal = 3
    /\ operands[1].type = "SUBGRAPH"
    /\ operands[1].lifetime = "TEMPORARY_VARIABLE"
    /\ operands[1].dimensions = <<>>

(***************************************************************************)
(* Specification SpecLocation: validateOperands on one operand whose       *)
(* lifetime and location are drawn, with a drawn size of operandValues,    *)
(* drawn model pools and (V1_3) drawn referenced subgraphs.  "INVALID" is  *)
(* a lifetime value that is no enumerator of OperandLifeTime.              *)
(***************************************************************************)
LocatedOperand(t, lt, loc) ==
    Operand(t, IF t \in TensorTypes THEN <<2>> ELSE <<>>,
            IF t \in QuantizedTypes THEN "1.0" ELSE "0.0", 0, lt, loc, NoExtraParams)

LocationMenu ==
    {DataLocation(p, o, l) :
        p \in {0, 1},
        o \in {U32Of(0), U32Of(1), U32Of(8), U32(65535, 65528)},
        l \in {U32Of(0), U32Of(2), U32Of(8), U32Of(16), U32Max}}

InitLocation ==
    /\ pc = "call"
    /\ ret = FALSE
    /\ sizeTBits \in {32, 64}
    /\ hal \in 0..3
    /\ operands \in {<<LocatedOperand(t, lt, loc)>> :
                        t \in {"TENSOR_FLOAT32", "TENSOR_QUANT8_ASYMM", "TENSOR_OEM_BYTE", "EXTENSION", "SUBGRAPH"},
                        lt \in OperandLifeTimes \cup {"INVALID"},
                        loc \in LocationMenu}
    /\ model \in {Model(Subgraph(operands, <<>>, <<>>, <<>>), referenced, operandValues, ps) :
                     referenced \in {<<>>} \cup (IF hal = 3 THEN {<<ReferringSubgraph(<<>>)>>} ELSE {}),
                     operandValues \in {WideOf(0), WideOf(16)},
                     ps \in {<<>>, <<HidlMemory("ashmem", WideOf(16), TRUE)>>}}
    /\ IdleMem /\ IdleScan /\ IdleIndexes /\ IdleRequest /\ IdlePlan

NextLocation == ValidateOperandsOfModel

SpecLocation == InitLocation /\ [][NextLocation]_vars

LocationMatchesLifetime(o, m) ==
    LET loc == o.location
    IN  CASE o.lifetime = "CONSTANT_COPY" ->
               /\ loc.poolIndex = 0
               /\ WideLE(ExactAdd(ToSizeT(loc.offset), loc.length), m.operandValues)
          [] o.lifetime = "CONSTANT_REFERENCE" ->
               validate(MemoryAccessVerifier(m.pools, sizeTBits), loc, sizeTBits)
          [] o.lifetime \in {"TEMPORARY_VARIABLE", "SUBGRAPH_INPUT", "SUBGRAPH_OUTPUT", "NO_VALUE"} ->
               loc = ZeroLocation
          [] o.lifetime = "SUBGRAPH" ->
               /\ loc.poolIndex = 0
               /\ loc.length = U32Of(0)
               /\ loc.offset.hi = 0 /\ loc.offset.lo < Len(m.referenced)
          [] OTHER -> FALSE

(***************************************************************************)
(* C14.  Lifetime/location rule: an operand that validateOperands accepts  *)
(* has the location its lifetime asks for: CONSTANT_COPY poolIndex 0 and   *)
(* offset + length, computed without wrap, at most the size of             *)
(* operandValues; CONSTANT_REFERENCE a location the verifier of the model  *)
(* pools accepts; TEMPORARY_VARIABLE, SUBGRAPH_INPUT, SUBGRAPH_OUTPUT and  *)
(* NO_VALUE the all-zero location; SUBGRAPH poolIndex 0, length 0 and      *)
(* offset below the number of referenced subgraphs; no other lifetime.     *)
(***************************************************************************)
C14_LocationMatchesLifetime ==
    (pc = "validateOperands" /\ ret) => LocationMatchesLifetime(operands[1], model)

\* What validateOperands answers for an operand in place of the one under validation.
AcceptedInModel(o) ==
    validateOperands(hal, <<o>>, model.operandValues, model.pools, model.referenced, hal >= 2, sizeTBits)

(***************************************************************************)
(* C16.  An accepted operand of lifetime CONSTANT_COPY or                  *)
(* CONSTANT_REFERENCE whose type is no extension type, OEM or              *)
(* TENSOR_OEM_BYTE has location.length equal to                            *)
(* nonExtensionOperandSizeOfData of its type and dimensions.               *)
(***************************************************************************)
C16_ConstantLength ==
    ( /\ pc = "validateOperands"
      /\ ret
      /\ operands[1].lifetime \in Constants
      /\ operands[1].type \notin OemTypes \cup {"EXTENSION"} )
        => operands[1].location.length = nonExtensionOperandSizeOfData(convertToV1_3(hal, operands[1]))

\* A CONSTANT_COPY tensor of 8 bytes declared with length 2 is rejected; with
\* length 8 it is accepted.
C16_Witness ==
    /\ pc = "validateOperands"
    /\ ~ret
    /\ operands[1].lifetime = "CONSTANT_COPY"
    /\ operands[1].type = "TENSOR_FLOAT32"
    /\ operands[1].location.length = U32Of(2)
    /\ AcceptedInModel([operands[1] EXCEPT !.location.length = U32Of(8)])

(***************************************************************************)
(* Specification SpecShape: validateRequest against a model that           *)
(* validateModel accepts, with one input and one output.  On one side      *)
(* (ioLifetime: the inputs or the outputs) the type and dimensions of the  *)
(* model operand and the list of request arguments are drawn; on the other *)
(* side the operand is a tensor of dimensions [2] and the argument has no  *)
(* value.                                                                  *)
(***************************************************************************)
ShapeModel(side, t, d) ==
    Model(Subgraph(<<IF side = "SUBGRAPH_INPUT" THEN RankOperand(t, d, "SUBGRAPH_INPUT")
                     ELSE TensorOperand("SUBGRAPH_INPUT"),
                     IF side = "SUBGRAPH_OUTPUT" THEN RankOperand(t, d, "SUBGRAPH_OUTPUT")
                     ELSE TensorOperand("SUBGRAPH_OUTPUT")>>,
                   <<Operation(<<0>>, <<1>>, 0)>>, <<0>>, <<1>>),
          <<>>, WideOf(0), <<>>)

NoValueArgument == RequestArgument(TRUE, ZeroLocation, <<>>)

ArgumentMenu ==
    {RequestArgument(nv, loc, d) :
        nv \in BOOLEAN,
        loc \in {ZeroLocation, DataLocation(0, U32Of(0), U32Of(8)), DataLocation(1, U32Of(0), U32Of(0))},
        d \in SeqsUpTo({0, 2}, MaxRank) \cup {<<3>>}}

ArgumentLists == {<<>>} \cup {<<a>> : a \in ArgumentMenu} \cup {<<a, NoValueArgument>> : a \in ArgumentMenu}

InitShape ==
    /\ pc = "call"
    /\ ret = FALSE
    /\ sizeTBits = 64
    /\ hal \in 0..3
    /\ ioLifetime \in {"SUBGRAPH_INPUT", "SUBGRAPH_OUTPUT"}
    /\ model \in {m \in {ShapeModel(ioLifetime, "TENSOR_FLOAT32", d) : d \in SeqsUpTo({0, 2}, MaxRank)}
                         \cup {ShapeModel(ioLifetime, "FLOAT32", <<>>)} :
                     validateModel(hal, m, sizeTBits)}
    /\ req \in {IF ioLifetime = "SUBGRAPH_INPUT" THEN Request(l, <<NoValueArgument>>, ps)
                ELSE Request(<<NoValueArgument>>, l, ps) :
                   l \in ArgumentLists, ps \in {<<>>, <<HidlMemory("ashmem", WideOf(16), TRUE)>>}}
    /\ operands = <<>>
    /\ ioIndexes = <<>>
    /\ IdleMem /\ IdleScan /\ IdlePlan

NextShape == ValidateRequest

SpecShape == InitShape /\ [][NextShape]_vars

InputOperand(k) == At(model.main.operands, model.main.inputIndexes[k])

OutputOperand(k) == At(model.main.operands, model.main.outputIndexes[k])

FullySpecified(o) ==
    \/ o.type \in ScalarTypes
    \/ Len(o.dimensions) >= 1 /\ \A d \in Range(o.dimensions) : d # 0

(***************************************************************************)
(* C17.  In every request that validateRequest accepts, every input        *)
(* argument that has a value either supplies dimensions that are all       *)
(* non-zero or belongs to a model input that is fully specified (known     *)
(* rank, no zero dimension); at every HAL version.                         *)
(***************************************************************************)
C17_InputsFullySpecified ==
    (pc = "validateRequest" /\ ret) =>
        \A k \in 1..Len(req.inputs) :
            ~req.inputs[k].hasNoValue =>
                \/ req.inputs[k].dimensions # <<>> /\ \A d \in Range(req.inputs[k].dimensions) : d # 0
                \/ FullySpecified(InputOperand(k))

\* The dimensions an argument supplies fit the operand; a zero is supplied
\* only where allowed.
SuppliedDimensionsFit(arg, o, zeroAllowed) ==
    /\ Len(arg.dimensions) = Len(o.dimensions)
    /\ \A i \in 1..Len(arg.dimensions) :
          /\ o.dimensions[i] # 0 => arg.dimensions[i] = o.dimensions[i]
          /\ arg.dimensions[i] = 0 => zeroAllowed

(***************************************************************************)
(* C18.  In every request that validateRequest accepts, an argument that   *)
(* has a value and supplies dimensions has the rank of its operand, agrees *)
(* with every non-zero dimension of the operand, and supplies a zero       *)
(* dimension only if it is an output and the HAL version is >= v1.2.       *)
(***************************************************************************)
C18_SuppliedDimensions ==
    (pc = "validateRequest" /\ ret) =>
        /\ \A k \in 1..Len(req.inputs) :
              (~req.inputs[k].hasNoValue /\ req.inputs[k].dimensions # <<>>) =>
                  SuppliedDimensionsFit(req.inputs[k], InputOperand(k), FALSE)
        /\ \A k \in 1..Len(req.outputs) :
              (~req.outputs[k].hasNoValue /\ req.outputs[k].dimensions # <<>>) =>
                  SuppliedDimensionsFit(req.outputs[k], OutputOperand(k), hal >= 2)

\* A V1_2 request is accepted whose output argument supplies a zero dimension.
C18_Witness ==
    /\ pc = "validateRequest"
    /\ ret
    /\ hal = 2
    /\ Len(req.outputs) = 1
    /\ ~req.outputs[1].hasNoValue
    /\ req.outputs[1].dimensions = <<2, 0>>

AllZeroNoValue(arg) == arg.hasNoValue /\ arg.location = ZeroLocation /\ arg.dimensions = <<>>

(***************************************************************************)
(* C19.  validateRequest rejects a request whose number of input or output *)
(* arguments differs from the length of the model's inputIndexes or        *)
(* outputIndexes, and a request with an argument that has no value but a   *)
(* location that is not all-zero or dimensions; a request with the right   *)
(* numbers of arguments, all without value, with all-zero locations and no *)
(* dimensions, is accepted, pools or no pools.                             *)
(***************************************************************************)
C19_CountsAndNoValue ==
    pc = "validateRequest" =>
        /\ ( \/ Len(req.inputs) # Len(model.main.inputIndexes)
             \/ Len(req.outputs) # Len(model.main.outputIndexes) ) => ~ret
        /\ (\E arg \in Range(req.inputs) \cup Range(req.outputs) :
                arg.hasNoValue /\ ~AllZeroNoValue(arg)) => ~ret
        /\ ( /\ Len(req.inputs) = Len(model.main.inputIndexes)
             /\ Len(req.outputs) = Len(model.main.outputIndexes)
             /\ \A arg \in Range(req.inputs) \cup Range(req.outputs) : AllZeroNoValue(arg) ) => ret

\* A request without pools whose arguments have no value is accepted.
C19_Witness ==
    /\ pc = "validateRequest"
    /\ ret
    /\ req.pools = <<>>
    /\ Len(req.inputs) = 1
    /\ AllZeroNoValue(req.inputs[1])

(***************************************************************************)
(* Specification SpecPool: validatePools on a drawn list of pools, and     *)
(* validateModel and validateRequest on a model and a request that hold    *)
(* these pools and are well-formed in every other respect.  Memory-domain  *)
(* tokens exist in V1_3 requests only: the model holds the list when it    *)
(* has no token.                                                           *)
(***************************************************************************)
PoolMenu(v) ==
    {HidlMemory(name, WideOf(16), handle) :
        name \in {"ashmem", "mmap_fd", "hardware_buffer_blob", "hardware_buffer", "other"},
        handle \in BOOLEAN}
    \cup (IF v = 3 THEN {TokenPool(token) : token \in {0, 1, 7}} ELSE {})

InitPool ==
    /\ pc = "call"
    /\ ret = FALSE
    /\ sizeTBits = 64
    /\ hal \in 0..3
    /\ pools \in SeqsUpTo(PoolMenu(hal), MaxPools)
    /\ model = [RequestModel EXCEPT !.pools =
                   IF \A k \in 1..Len(pools) : pools[k].disc = "hidlMemory" THEN pools ELSE <<>>]
    /\ req = Request(<<NoValueArgument>>, <<NoValueArgument>>, pools)
    /\ location = ZeroLocation
    /\ operands = <<>>
    /\ IdleScan /\ IdleIndexes /\ IdlePlan

ValidatePools ==
    /\ pc = "call"
    /\ ret' = validatePools(pools, hal)
    /\ pc' = "validatePools"
    /\ UNCHANGED <<sizeTBits, hal, pools, location, operands, operations, written, oobRead, ioIndexes, ioLifetime, model, req, plan, controller, executor, trace>>

NextPool == ValidatePools \/ ValidateModel \/ ValidateRequest

SpecPool == InitPool /\ [][NextPool]_vars

PoolSupported(pool, v) ==
    IF pool.disc = "hidlMemory"
    THEN /\ pool.handle
         /\ \/ pool.name \in {"ashmem", "mmap_fd"}
            \/ v >= 2 /\ pool.name \in {"hardware_buffer_blob", "hardware_buffer"}
    ELSE pool.token > 0

(***************************************************************************)
(* C20.  validatePool accepts a hidlMemory pool exactly when its handle is *)
(* non-null and its name is ashmem or mmap_fd or, at HAL >= v1.2 only,     *)
(* hardware_buffer_blob or hardware_buffer, and a token pool exactly when  *)
(* its token is > 0; a model or a request that holds a pool validatePool   *)
(* rejects is rejected.                                                    *)
(***************************************************************************)
C20_PoolRule ==
    /\ pc = "validatePools" => (ret <=> \A k \in 1..Len(pools) : PoolSupported(pools[k], hal))
    /\ (pc = "validateModel" /\ \E k \in 1..Len(model.pools) : ~PoolSupported(model.pools[k], hal)) => ~ret
    /\ (pc = "validateRequest" /\ \E k \in 1..Len(req.pools) : ~PoolSupported(req.pools[k], hal)) => ~ret

\* A V1_1 model is rejected for its one pool, a hardware_buffer with a
\* handle, with which the V1_2 model is accepted.
C20_Witness ==
    /\ pc = "validateModel"
    /\ ~ret
    /\ hal = 1
    /\ model.pools = <<HidlMemory("hardware_buffer", WideOf(16), TRUE)>>
    /\ validateModel(2, model, sizeTBits)

(***************************************************************************)
(* Specification SpecTypes: one call of validOperandType on the type of an *)
(* operand, at each version.                                               *)
(***************************************************************************)
InitTypes ==
    /\ pc = "call"
    /\ ret = FALSE
    /\ sizeTBits = 64
    /\ hal \in 0..3
    /\ operands \in {<<QuantOperand(t, "0.0", 0)>> : t \in OperandTypes}
    /\ IdleMem /\ IdleScan /\ IdleIndexes /\ IdleModel /\ IdleRequest /\ IdlePlan

ValidOperandType ==
    /\ pc = "call"
    /\ ret' = validOperandType(hal, operands[1].type)
    /\ pc' = "validOperandType"
    /\ UNCHANGED <<sizeTBits, hal, pools, location, operands, operations, written, oobRead, ioIndexes, ioLifetime, model, req, plan, controller, executor, trace>>

NextTypes == ValidOperandType

SpecTypes == InitTypes /\ [][NextTypes]_vars

\* The types validOperandType accepts at a version.
Repertoire(v) == {t \in OperandTypes : validOperandType(v, t)}

(***************************************************************************)
(* C21.  A type validOperandType accepts at a version is accepted at every *)
(* later version, and the repertoire grows from v1.0 to v1.2 and from v1.2 *)
(* to v1.3; FLOAT16, BOOL and TENSOR_QUANT8_SYMM_PER_CHANNEL are rejected  *)
(* at v1.0 and accepted from v1.2; SUBGRAPH and TENSOR_QUANT8_ASYMM_SIGNED *)
(* are rejected at v1.2 and accepted at v1.3.                              *)
(***************************************************************************)
C21_RepertoiresGrow ==
    pc = "validOperandType" =>
        LET type == operands[1].type
        IN  /\ ret => \A later \in hal..3 : validOperandType(later, type)
            /\ type \in {"FLOAT16", "BOOL", "TENSOR_QUANT8_SYMM_PER_CHANNEL"} => (ret <=> hal >= 2)
            /\ type \in {"SUBGRAPH", "TENSOR_QUANT8_ASYMM_SIGNED"} => (ret <=> hal = 3)
            /\ Repertoire(0) # Repertoire(2) /\ Repertoire(2) # Repertoire(3)

\* BOOL has been accepted at v1.2.
C21_Witness ==
    /\ pc = "validOperandType"
    /\ ret
    /\ hal = 2
    /\ operands[1].type = "BOOL"

(***************************************************************************)
(* Specification SpecUpgrade: a V1_0, V1_1 or V1_2 model is validated,     *)
(* handed to the next version and validated again, up to V1_3.  The model  *)
(* has an input and an output operand and one operation whose signature    *)
(* the operator library accepts from some version on; the output operand,  *)
(* the pool and that version are drawn.  ret keeps the result of the       *)
(* validation before the upgrade until the next validation.                *)
(***************************************************************************)
UpgradeOperand(v, t, d, sc) ==
    [QuantOperand(t, sc, 0) EXCEPT
        !.dimensions = IF t \in TensorTypes THEN d ELSE <<>>,
        !.lifetime = "SUBGRAPH_OUTPUT",
        !.extraParams = IF v < 2 THEN NoExtraParams ELSE @]

UpgradePools ==
    {<<>>, <<HidlMemory("ashmem", WideOf(16), TRUE)>>, <<HidlMemory("hardware_buffer", WideOf(16), TRUE)>>}

InitUpgrade ==
    /\ pc = "call"
    /\ ret = FALSE
    /\ sizeTBits = 64
    /\ hal \in 0..2
    /\ model \in {Model(Subgraph(<<TensorOperand("SUBGRAPH_INPUT"), UpgradeOperand(hal, t, d, sc)>>,
                                 <<Operation(<<0>>, <<1>>, h)>>, <<0>>, <<1>>),
                        <<>>, WideOf(0), ps) :
                     t \in OperandTypes, d \in {<<>>, <<1>>}, sc \in {"0.0", "1.0"},
                     h \in 0..4, ps \in UpgradePools}
    /\ operands = <<>>
    /\ IdleMem /\ IdleScan /\ IdleIndexes /\ IdleRequest /\ IdlePlan

Upgrade ==
    /\ pc = "validateModel"
    /\ hal < 3
    /\ hal' = hal + 1
    /\ model' = upgradeModel(hal, model)
    /\ pc' = "call"
    /\ UNCHANGED <<ret, sizeTBits, pools, location, operands, operations, written, oobRead, ioIndexes, ioLifetime, req, plan, controller, executor, trace>>

NextUpgrade == ValidateModel \/ Upgrade

SpecUpgrade == InitUpgrade /\ [][NextUpgrade]_vars

(***************************************************************************)
(* C22.  Upgrade preserves validity: when validateModel has accepted a     *)
(* V1_N model, N in {0, 1, 2}, validateModel accepts the upgraded model at *)
(* V1_N+1 (the operator library's check being monotone in the version).    *)
(***************************************************************************)
C22_UpgradePreservesValidity ==
    [][(pc = "call" /\ ret /\ pc' = "validateModel") => ret']_vars

\* A V1_1 model with an input tensor, an output tensor and one operation has
\* been accepted, upgraded twice and accepted as a V1_3 model.
C22_Witness ==
    /\ pc = "validateModel"
    /\ ret
    /\ hal = 3
    /\ validateModel(1, model, sizeTBits)

(***************************************************************************)
(* Specification SpecController: a compound plan of up to MaxSteps steps   *)
(* is given a controller and next is called until it stores a null         *)
(* executor.  trace is the sequence of the executors stored.               *)
(***************************************************************************)
Devices == {"nullptr", "gpu", "dsp"}

CompoundPlans ==
    {ExecutionPlan("COMPOUND", [k \in 1..Len(ds) |-> ExecutionStep(k - 1, ds[k])], {}) :
        ds \in SeqsUpTo(Devices, MaxSteps)}

IdleValidator ==
    /\ ret = FALSE /\ sizeTBits = 64 /\ IdleOperands /\ IdleMem /\ IdleScan
    /\ IdleIndexes /\ IdleModel /\ IdleRequest

InitController ==
    /\ pc = "call"
    /\ plan \in CompoundPlans
    /\ controller = BadController
    /\ executor = NullExecutor
    /\ trace = <<>>
    /\ IdleValidator

MakeController ==
    /\ pc = "call"
    /\ controller' = makeController(plan)
    /\ pc' = "makeController"
    /\ UNCHANGED <<ret, sizeTBits, hal, pools, location, operands, operations, written, oobRead, ioIndexes, ioLifetime, model, req, plan, executor, trace>>

\* The caller goes on until it is given a null executor.
CallNext ==
    /\ pc = "makeController" \/ (pc = "next" /\ executor # NullExecutor)
    /\ LET r == next(plan, controller)
       IN  /\ controller' = r.controller
           /\ executor' = r.executor
           /\ trace' = Append(trace, r.executor)
    /\ pc' = "next"
    /\ UNCHANGED <<ret, sizeTBits, hal, pools, location, operands, operations, written, oobRead, ioIndexes, ioLifetime, model, req, plan>>

NextController == MakeController \/ CallNext

SpecController == InitController /\ [][NextController]_vars

(***************************************************************************)
(* C23.  For a plan with N steps and a controller from makeController, the *)
(* first N calls of next store the executors of steps 0, 1, ..., N-1 in    *)
(* that order and the (N+1)st stores null: no step is skipped and none is  *)
(* given twice.                                                            *)
(***************************************************************************)
C23_StepwiseProtocol ==
    pc = "next" =>
        LET N == Len(plan.mSteps)
        IN  /\ Len(trace) <= N + 1
            /\ \A j \in 1..Len(trace) :
                   trace[j] = IF j <= N THEN <<StepExecutor(plan.mSteps[j])>> ELSE NullExecutor
            /\ \A j \in 1..Len(trace) : j <= N => trace[j][1].step = j - 1
            /\ executor = trace[Len(trace)]

\* The third call on a plan of two steps has stored null.
C23_Witness ==
    /\ pc = "next"
    /\ Len(plan.mSteps) = 2
    /\ Len(trace) = 3
    /\ executor = NullExecutor

(***************************************************************************)
(* Specification SpecTemporaries: recordTemporaryDef is called up to       *)
(* MaxDefs times on a plan in any state.  trace is the sequence of the     *)
(* <<fromModelIndex, stepIndex>> arguments of the calls.                   *)
(***************************************************************************)
InitTemporaries ==
    /\ pc = "call"
    /\ plan \in {ExecutionPlan(st, <<>>, {}) : st \in {"EMPTY", "SIMPLE", "COMPOUND"}}
    /\ controller = BadController
    /\ executor = NullExecutor
    /\ trace = <<>>
    /\ IdleValidator

RecordTemporaryDef ==
    /\ pc \in {"call", "recordTemporaryDef"}
    /\ Len(trace) < MaxDefs
    /\ \E fromModelIndex \in 0..MaxOperands, stepIndex \in 0..(MaxSteps - 1) :
           LET r == recordTemporaryDef(plan, fromModelIndex, stepIndex)
           IN  /\ plan' = r.plan
               /\ pc' = IF r.aborted THEN "abort" ELSE "recordTemporaryDef"
               /\ trace' = Append(trace, <<fromModelIndex, stepIndex>>)
    /\ UNCHANGED <<ret, sizeTBits, hal, pools, location, operands, operations, written, oobRead, ioIndexes, ioLifetime, model, req, controller, executor>>

NextTemporaries == RecordTemporaryDef

SpecTemporaries == InitTemporaries /\ [][NextTemporaries]_vars

\* The calls before the last one.
Front(s) == SubSeq(s, 1, Len(s) - 1)

DistinctIndexes(s) == \A j, k \in 1..Len(s) : s[j][1] = s[k][1] => j = k

(***************************************************************************)
(* C24.  After any sequence of recordTemporaryDef calls that returned, the *)
(* plan is COMPOUND, no index was recorded twice and the map holds each    *)
(* recorded index with the one step it was recorded for; a call on a plan  *)
(* that is not COMPOUND, or for an index already present, fails its        *)
(* assertion and leaves the map as the earlier calls made it.              *)
(***************************************************************************)
C24_ExclusiveProducer ==
    LET map == plan.mTemporaryToDefiningStep
    IN  /\ pc = "recordTemporaryDef" =>
               /\ plan.mState = "COMPOUND"
               /\ DistinctIndexes(trace)
               /\ map = Range(trace)
               /\ \A j \in 1..Len(trace) : count(map, trace[j][1]) = 1
        /\ pc = "abort" =>
               /\ \/ plan.mState # "COMPOUND"
                  \/ \E j \in 1..(Len(trace) - 1) : trace[j][1] = trace[Len(trace)][1]
               /\ DistinctIndexes(Front(trace))
               /\ map = IF plan.mState = "COMPOUND" THEN Range(Front(trace)) ELSE {}

\* Index 1 was recorded for step 0; recording it again for step 1 has
\* failed the assertion and the map still gives step 0.
C24_Witness ==
    /\ pc = "abort"
    /\ trace = <<<<1, 0>>, <<1, 1>>>>
    /\ plan.mTemporaryToDefiningStep = {<<1, 0>>}

(***************************************************************************)
(* Specification SpecSingle: validateModel on a model with one operation,  *)
(* no pool and three operands: an input tensor, a drawn operand that the   *)
(* operation reads, and the operand meant as the output.  The operation's  *)
(* outputs and lowest version and the two index lists are drawn.           *)
(***************************************************************************)
SecondOperands ==
    {Operand(t, IF t \in TensorTypes THEN <<2>> ELSE <<>>, "0.0", 0, lt, loc, NoExtraParams) :
        t \in {"INT32", "TENSOR_FLOAT32", "TENSOR_QUANT8_ASYMM"},
        lt \in {"CONSTANT_COPY", "TEMPORARY_VARIABLE", "NO_VALUE", "SUBGRAPH_INPUT"},
        loc \in {ZeroLocation, DataLocation(0, U32Of(0), U32Of(4)), DataLocation(0, U32Of(0), U32Of(8))}}

ThirdOperands ==
    {[TensorOperand(lt) EXCEPT !.dimensions = d] :
        lt \in {"SUBGRAPH_OUTPUT", "TEMPORARY_VARIABLE"}, d \in {<<2>>, <<0>>, <<>>}}

InitSingle ==
    /\ pc = "call"
    /\ ret = FALSE
    /\ sizeTBits = 64
    /\ hal \in 0..3
    /\ model \in {Model(Subgraph(<<TensorOperand("SUBGRAPH_INPUT"), second, third>>,
                                 <<Operation(<<0, 1>>, outs, h)>>, ins, outIndexes),
                        <<>>, WideOf(8), <<>>) :
                     second \in SecondOperands, third \in ThirdOperands,
                     outs \in {<<2>>, <<1>>, <<2, 1>>}, h \in {0, 2},
                     ins \in {<<>>, <<0>>, <<0, 0>>, <<1>>, <<1, 0>>},
                     outIndexes \in {<<>>, <<2>>, <<2, 2>>, <<3>>}}
    /\ operands = <<>>
    /\ IdleMem /\ IdleScan /\ IdleIndexes /\ IdleRequest /\ IdlePlan

NextSingle == ValidateModel

SpecSingle == InitSingle /\ [][NextSingle]_vars

\* The indexes of a list are distinct, in range and of operands of the lifetime.
DistinctIndexesOf(indexes, operandTable, lifetime) ==
    /\ \A j, k \in 1..Len(indexes) : indexes[j] = indexes[k] => j = k
    /\ \A j \in 1..Len(indexes) :
           /\ indexes[j] < Len(operandTable)
           /\ At(operandTable, indexes[j]).lifetime = lifetime

\* The conditions of a well-formed single-operation model: the operand rules
\* hold for every operand, the one operation passes the operator check and
\* its output is the sole SUBGRAPH_OUTPUT operand, the index lists are
\* distinct in-range indexes of the right lifetime, and there is no pool.
WellFormedSingle(v, m, bits) ==
    LET table == m.main.operands
        SubgraphOutputs == {i \in 0..(Len(table) - 1) : At(table, i).lifetime = "SUBGRAPH_OUTPUT"}
    IN  /\ validateOperands(v, table, m.operandValues, m.pools, m.referenced, v >= 2, bits)
        /\ Len(m.main.operations) = 1
        /\ validateOperation(m.main.operations[1], table, v) = "ANEURALNETWORKS_NO_ERROR"
        /\ \E o \in SubgraphOutputs : SubgraphOutputs = {o} /\ m.main.operations[1].outputs = <<o>>
        /\ DistinctIndexesOf(m.main.inputIndexes, table, "SUBGRAPH_INPUT")
        /\ DistinctIndexesOf(m.main.outputIndexes, table, "SUBGRAPH_OUTPUT")
        /\ m.pools = <<>>
        /\ m.referenced = <<>>

NoTemporary(m) == \A k \in 1..Len(m.main.operands) : m.main.operands[k].lifetime # "TEMPORARY_VARIABLE"

(***************************************************************************)
(* C25, as stated.  A well-formed single-operation model is accepted.      *)
(***************************************************************************)
C25_WellFormedAccepted ==
    (pc = "validateModel" /\ WellFormedSingle(hal, model, sizeTBits)) => ret

(***************************************************************************)
(* C25, amended.  A well-formed single-operation model none of whose       *)
(* operands is a TEMPORARY_VARIABLE is accepted, with no pool, whether the *)
(* output's dimensions are fully specified or (at HAL >= v1.2) zero or     *)
(* absent.                                                                 *)
(***************************************************************************)
C25_WellFormedWithoutTemporaryAccepted ==
    (pc = "validateModel" /\ WellFormedSingle(hal, model, sizeTBits) /\ NoTemporary(model)) => ret

\* A V1_2 model with a CONSTANT_COPY scalar and an output of dimension 0 has
\* been accepted.
C25_Witness ==
    /\ pc = "validateModel"
    /\ ret
    /\ hal = 2
    /\ WellFormedSingle(hal, model, sizeTBits)
    /\ model.main.operands[2].lifetime = "CONSTANT_COPY"
    /\ model.main.operands[3].dimensions = <<0>>
    /\ model.main.inputIndexes = <<0>>
    /\ model.main.outputIndexes = <<2>>

(***************************************************************************)
(* Specification SpecWalk: checkNoReferenceCycles on a V1_3 model whose    *)
(* SUBGRAPH operands all refer to subgraphs the model has, as they do when *)
(* validateModel calls it.  A subgraph may refer to the same subgraph from *)
(* two operands.                                                           *)
(***************************************************************************)
WalkSubgraphs(n) == {ReferringSubgraph(refs) : refs \in NonDecreasingSeqs(0..(n - 1), MaxRefs)}

InitWalk ==
    /\ pc = "call"
    /\ ret = FALSE
    /\ sizeTBits = 64
    /\ hal = 3
    /\ \E n \in 0..MaxReferenced :
           model \in {Model(main, referenced, WideOf(0), <<>>) :
                         main \in WalkSubgraphs(n),
                         referenced \in [1..n -> WalkSubgraphs(n)]}
    /\ operands = <<>>
    /\ IdleMem /\ IdleScan /\ IdleIndexes /\ IdleRequest /\ IdlePlan

CheckNoReferenceCycles ==
    /\ pc = "call"
    /\ LET r == checkNoReferenceCyclesFrom(model, -1, {})
       IN  /\ ret' = r.ok
           /\ oobRead' = r.oob
    /\ pc' = "checkNoReferenceCycles"
    /\ UNCHANGED <<sizeTBits, hal, pools, location, operands, operations, written, ioIndexes, ioLifetime, model, req, plan, controller, executor, trace>>

NextWalk == CheckNoReferenceCycles

SpecWalk == InitWalk /\ [][NextWalk]_vars

\* The subgraphs reachable from main by following SUBGRAPH operands, main included.
ReachableFromMain == ReachedFrom({-1}, {})

(***************************************************************************)
(* C27.  checkNoReferenceCycles(model) returns false exactly when some     *)
(* subgraph reachable from main through SUBGRAPH operands lies on a        *)
(* reference cycle; a subgraph reached along two acyclic paths, or from    *)
(* two operands of one subgraph, is not reported as a cycle.               *)
(***************************************************************************)
C27_FalseIffReachableCycle ==
    pc = "checkNoReferenceCycles" =>
        (~ret <=> \E id \in ReachableFromMain : OnReferenceCycle(id))

\* A diamond: main refers to referenced[0] and referenced[1], referenced[0]
\* refers to referenced[1] from two operands; the walk has returned true.
C27_Witness ==
    /\ pc = "checkNoReferenceCycles"
    /\ ret
    /\ References(model.main) = {0, 1}
    /\ Len(model.referenced[1].operands) = 4
    /\ References(model.referenced[1]) = {1}
    /\ References(model.referenced[2]) = {}

(***************************************************************************)
(* Specification SpecStages: validateModel on models in which each stage   *)
(* can fail: an operand of no valid type or a SUBGRAPH operand that refers *)
(* past the referenced subgraphs, an operation no version accepts, index   *)
(* lists naming an operand of the other lifetime, a pool of an unknown     *)
(* name, referenced subgraphs with the same defects, reference cycles, and *)
(* empty main and referenced subgraphs.  trace holds the stages evaluated. *)
(***************************************************************************)
InvalidOperand == [TensorOperand("NO_VALUE") EXCEPT !.type = "INVALID"]

ExtraOperands ==
    {<<>>, <<InvalidOperand>>} \cup {<<SubgraphOperand(k)>> : k \in 0..MaxReferenced}

StageSubgraphs ==
    {Subgraph(<<TensorOperand("SUBGRAPH_INPUT"), TensorOperand("SUBGRAPH_OUTPUT")>> \o extra,
              <<Operation(<<0>>, <<1>>, h)>>, ins, outs) :
        extra \in ExtraOperands, h \in {0, 4}, ins \in {<<0>>, <<1>>}, outs \in {<<1>>, <<0>>}}

EmptySubgraphs ==
    {EmptySubgraph,
     Subgraph(<<TensorOperand("SUBGRAPH_INPUT")>>, <<>>, <<0>>, <<>>),
     Subgraph(<<>>, <<Operation(<<>>, <<>>, 0)>>, <<>>, <<>>)}

ReferencedMenu ==
    {ReferringSubgraph(<<>>), EmptySubgraph,
     Subgraph(<<TensorOperand("SUBGRAPH_INPUT"), TensorOperand("SUBGRAPH_OUTPUT"), InvalidOperand>>,
              <<Operation(<<0>>, <<1>>, 0)>>, <<0>>, <<1>>),
     Subgraph(<<TensorOperand("SUBGRAPH_INPUT"), TensorOperand("SUBGRAPH_OUTPUT")>>,
              <<Operation(<<0>>, <<1>>, 0)>>, <<0>>, <<0>>)}
    \cup {ReferringSubgraph(<<k>>) : k \in 0..MaxReferenced}

InitStages ==
    /\ pc = "call"
    /\ ret = FALSE
    /\ sizeTBits = 64
    /\ hal \in 0..3
    /\ model \in {Model(main, referenced, WideOf(0), ps) :
                     main \in StageSubgraphs \cup EmptySubgraphs,
                     referenced \in IF hal = 3 THEN SeqsUpTo(ReferencedMenu, MaxReferenced) ELSE {<<>>},
                     ps \in {<<>>, <<HidlMemory("other", WideOf(16), TRUE)>>}}
    /\ operands = <<>>
    /\ IdleMem /\ IdleScan /\ IdleIndexes /\ IdleRequest /\ IdlePlan

ValidateModelStages ==
    /\ pc = "call"
    /\ LET r == validateModelStages(hal, model, sizeTBits)
       IN  /\ ret' = r.ok
           /\ oobRead' = r.oob
           /\ trace' = r.stages
    /\ pc' = "validateModelStages"
    /\ UNCHANGED <<sizeTBits, hal, pools, location, operands, operations, written, ioIndexes, ioLifetime, model, req, plan, controller, executor>>

NextStages == ValidateModel \/ ValidateModelStages

SpecStages == InitStages /\ [][NextStages]_vars

RECURSIVE StagesOfReferenced(_)
StagesOfReferenced(n) ==
    IF n = 0 THEN <<>>
    ELSE StagesOfReferenced(n - 1)
         \o <<Stage("validateOperands", n - 1), Stage("validateOperations", n - 1),
              Stage("inputIndexes", n - 1), Stage("outputIndexes", n - 1)>>

StagesOfMain ==
    <<Stage("validateOperands", -1), Stage("validateOperations", -1),
      Stage("inputIndexes", -1), Stage("outputIndexes", -1)>>

\* The order as stated: the pools come before the referenced subgraphs.
StatedOrder ==
    StagesOfMain \o <<Stage("validatePools", -1)>>
    \o (IF hal = 3
        THEN StagesOfReferenced(Len(model.referenced)) \o <<Stage("checkNoReferenceCycles", -1)>>
        ELSE <<>>)

\* The order with the pools after the referenced subgraphs at V1_3.
PoolsAfterReferencedOrder ==
    StagesOfMain
    \o (IF hal = 3 THEN StagesOfReferenced(Len(model.referenced)) ELSE <<>>)
    \o <<Stage("validatePools", -1)>>
    \o (IF hal = 3 THEN <<Stage("checkNoReferenceCycles", -1)>> ELSE <<>>)

\* The stages evaluated are the first stages of the order, every stage but
\* the last has passed, the evaluation went on as long as stages passed,
\* and the result is true exactly when every stage of the order has passed.
RunsInOrder(order) ==
    /\ Len(trace) <= Len(order)
    /\ \A k \in 1..Len(trace) : trace[k].stage = order[k]
    /\ \A k \in 1..(Len(trace) - 1) : trace[k].ok
    /\ Len(trace) < Len(order) => ~trace[Len(trace)].ok
    /\ ret <=> (Len(trace) = Len(order) /\ trace[Len(trace)].ok)

NonEmptyMain == Len(model.main.operations) # 0 /\ Len(model.main.operands) # 0

(***************************************************************************)
(* C26, as stated.  validateModel runs its stages in the order operands,   *)
(* operations, input-index list, output-index list, pools, then (V1_3      *)
(* only) every referenced subgraph, then the acyclicity check, and stops   *)
(* at the first stage that fails, returning false.                         *)
(***************************************************************************)
C26_StagesInStatedOrder ==
    (pc = "validateModelStages" /\ NonEmptyMain) => RunsInOrder(StatedOrder)

(***************************************************************************)
(* C26, amended.  validateModel runs its stages in the order operands,     *)
(* operations, input-index list, output-index list of main, then (V1_3     *)
(* only) the same four of every referenced subgraph, then pools, then      *)
(* (V1_3 only) the acyclicity check, and stops at the first stage that     *)
(* fails, returning false.                                                 *)
(***************************************************************************)
C26_StagesInOrder ==
    (pc = "validateModelStages" /\ NonEmptyMain) =>
        /\ RunsInOrder(PoolsAfterReferencedOrder)
        /\ ret = validateModel(hal, model, sizeTBits)

\* A V1_3 model whose main passes, whose first referenced subgraph fails its
\* operand stage and whose pool is bad: the evaluation ended at the
\* referenced subgraph and did not come to the pools.
C26_Witness ==
    /\ pc = "validateModelStages"
    /\ hal = 3
    /\ ~ret
    /\ Len(trace) = 5
    /\ trace[5] = [stage |-> Stage("validateOperands", 0), ok |-> FALSE]
    /\ ~validatePools(model.pools, 3)

\* The stage of the acyclicity walk has been evaluated.
WalkEntered ==
    /\ Len(trace) > 0
    /\ trace[Len(trace)].stage = Stage("checkNoReferenceCycles", -1)

(***************************************************************************)
(* C28.  In every execution of the V1_3 validateModel the acyclicity walk  *)
(* never indexes model.referenced out of range: the walk is entered only   *)
(* after the operand validation of main and of every referenced subgraph   *)
(* has passed, so every offset it recurses into is below the number of     *)
(* referenced subgraphs.                                                   *)
(***************************************************************************)
C28_WalkStaysInRange ==
    pc = "validateModelStages" =>
        /\ ~oobRead
        /\ WalkEntered =>
               \A id \in SubgraphIds :
                   /\ \E k \in 1..Len(trace) : trace[k] = [stage |-> Stage("validateOperands", id), ok |-> TRUE]
                   /\ \A offset \in References(SubgraphAt(model, id)) : offset < Len(model.referenced)

\* The walk has been entered on a model whose main and whose referenced
\* subgraphs hold SUBGRAPH operands, and has recursed through them.
C28_Witness ==
    /\ pc = "validateModelStages"
    /\ hal = 3
    /\ WalkEntered
    /\ ~oobRead
    /\ Len(model.referenced) = MaxReferenced
    /\ References(model.main) # {}
    /\ References(model.referenced[1]) # {}

(***************************************************************************)
(* C29.  An operation that lists one operand index twice among its own     *)
(* outputs makes validateOperations return false, although no other        *)
(* operation writes that operand: the second occurrence finds the operand  *)
(* marked written by the first.                                            *)
(***************************************************************************)
C29_DuplicateOutputRejected ==
    (\E k \in 1..Len(operations) : HasDuplicate(operations[k].outputs)) => Rejected

\* The only operation passes the operator library and lists operand 0, a
\* temporary, twice; the scan has returned false without marking a second
\* operand.
C29_Witness ==
    /\ Rejected
    /\ Len(operations) = 1
    /\ operations[1].outputs = <<0, 0>>
    /\ validateOperation(operations[1], operands, hal) = "ANEURALNETWORKS_NO_ERROR"
    /\ outputLifetimeOk(At(operands, 0))
    /\ Writers(0) = {1}

(***************************************************************************)
(* C30.  validateModel rejects a model whose main (below V1_3: the model   *)
(* itself) has no operation or no operand, before any other check; the     *)
(* check is on main only: every stage of a V1_3 referenced subgraph with   *)
(* no operation and no operand passes.                                     *)
(***************************************************************************)
C30_EmptyModelRejected ==
    /\ (pc \in {"validateModel", "validateModelStages"} /\ ~NonEmptyMain) => ~ret
    /\ (pc = "validateModelStages" /\ ~NonEmptyMain) => trace = <<>>
    /\ pc = "validateModelStages" =>
           \A k \in 1..Len(trace) :
               (trace[k].stage.subgraph >= 0
                    /\ At(model.referenced, trace[k].stage.subgraph) = EmptySubgraph)
                   => trace[k].ok

\* A V1_3 model whose main refers to its one referenced subgraph, which has
\* no operation and no operand, has been accepted.
C30_ReferencedEmptyAccepted ==
    /\ pc = "validateModel"
    /\ hal = 3
    /\ ret
    /\ model.referenced = <<EmptySubgraph>>
    /\ References(model.main) = {0}

\* A V1_2 model with one operand and no operation has been rejected with no
\* stage evaluated.
C30_Witness ==
    /\ pc = "validateModelStages"
    /\ hal = 2
    /\ ~ret
    /\ Len(model.main.operands) = 1 /\ Len(model.main.operations) = 0
    /\ trace = <<>>

=============================================================================
